---- MODULE Spec2Model ----
(***************************************************************************)
(* A model of ARF, the append-only record framework of this repository:    *)
(*   - MemoryOnlyStorage            (src/selfdelimitedblob.py)             *)
(*   - ARFIOWrapper                 (src/arf.py, "IO")                     *)
(*   - ARFMapper, UnitInfo, Feed    (src/arf.py, "Mapping")                *)
(*   - Content / SubjectWithContext (src/arf.py)                           *)
(*                                                                         *)
(* Each component has its own specification (SpecStore, SpecIO, ...); the  *)
(* variables of the other components are held at their initial values.     *)
(*                                                                         *)
(* Identifier resolution.  Several statements of the source name an        *)
(* identifier that does not resolve as written (txsmod_ids for the         *)
(* parameter txmod_ids, self._read_next for read_next, cache_iter for the  *)
(* store_iter that read_ctx assigns, ...).  The model follows the          *)
(* algorithm and takes the referent that the surrounding code defines;     *)
(* each such place is marked "as written:" where it is modelled.           *)
(***************************************************************************)
EXTENDS Integers, Sequences, FiniteSets, Bags, TLC

\* Python's None, for the fields that hold an id or None.
None == 0 - 1

----------------------------------------------------------------------------
(* Bounds of the model *)

\* appends to one MemoryOnlyStorage
MaxAppends == 3

\* records written to one stream
MaxRecords == 3

\* records appended to the storage the mapper scans
MaxLog == 3

\* discards on the storage the mapper scans
MaxDiscards == 1

\* feeds obtained from one mapper
MaxFeeds == 1

\* records appended to the storage a Content is built over
MaxContentLog == 4

\* records appended to the storage that a mapper with feeds scans
MaxFeedLog == 2
MaxKeys == 3
MaxSubjects == 3
MaxOther == 2
MaxIters == 2

\* nested sync() calls before Python raises RecursionError
RecursionLimit == 2

\* store ids of the units given to one ARFMapperIndex
MaxIndexIds == 3

\* units the mapper gives to one ARFIndexer
MaxIndexerUnits == 6

\* units of the transactions that one Content is made of
MaxContentUnits == 5

\* bits of a TxScopeID in the checked instances (TxScopeID.bit_length is 16,
\* src/arf.py line 68)
TxScopeBits == 3

\* ids one TransactionComposer issues
MaxIssued == 2

\* bytes of a stream that was not written through the wrapper
MaxRawBytes == 4

\* the keys given to a SearchTree are 1..MaxTreeKey
MaxTreeKey == 3

\* insert_or_replace and delete calls on one SearchTree
MaxTreeOps == 4

\* the keys of a unique index are 1..MaxUniqKeys
MaxUniqKeys == 2

\* store ids given to one unique index
MaxUniqIds == 3

\* units given to one TransactionComposer
MaxNewUnits == 2

----------------------------------------------------------------------------
(* State *)

\* MemoryOnlyStorage
VARIABLES
    ctr,        \* MemoryOnlyStorage.ctr: the last id handed out
    store,      \* MemoryOnlyStorage.store: id -> blob, a dict
    store_keys, \* the keys of store in dict (insertion) order
    issued,     \* history: the ids returned by append, in call order
    st_ret,     \* the last call on the storage and what it returned or raised
    it          \* the _it object of the last read_ctx call, fully consumed

storeVars == <<ctr, store, store_keys, issued, st_ret, it>>

\* ARFIOWrapper and its stream
VARIABLES
    stream,     \* the bytes of the stream
    pos,        \* the stream cursor, stream.tell()
    offs,       \* the storage's index: the start offset of every record
    io_ret      \* the last call on the wrapper and what it returned or raised

ioVars == <<stream, pos, offs, io_ret>>

\* the storage the mapper scans, and ARFMapper
VARIABLES
    log,                    \* the storage's records by id: [unit, deleted]
    units,                  \* ARFMapper.units: store_id -> UnitInfo
    last_sync_id,           \* units.last_sync_id
    last_notify_sync_id,    \* units.last_notify_sync_id
    total_lifetime_units_mapped, \* units.total_lifetime_units_mapped
    cur_txscope,            \* ARFMapper.cur_txscope
    mod_next_ids_per_txs,   \* ARFMapper.mod_next_ids_per_txs, a defaultdict
    sync_gen,               \* ARFMapper._sync_gen: where the generator is suspended
    all_feeds,              \* ARFMapper.all_feeds
    sync_ret                \* the last sync() call: what it did and raised

mapperVars == <<log, units, last_sync_id, last_notify_sync_id,
                total_lifetime_units_mapped, cur_txscope, mod_next_ids_per_txs,
                sync_gen, all_feeds, sync_ret>>

\* Content._context_for
VARIABLES
    ctx         \* the last _context_for call: the SubjectWithContext or what it raised

contentVars == <<ctx>>

\* the feeds of a mapper and the perishable side of ARFMapper.units
VARIABLES
    units_expired,  \* units.expired: the ids found expired and not yet released
    delivered,      \* history, per feed: the ids its iterator has yielded
    feed_ret        \* the last call on the mapper or a feed: the callbacks it made

feedVars == <<units_expired, delivered, feed_ret>>

\* the variables of the components that follow the mapper and the Content
VARIABLES
    pc          \* a perishable container: its underlying keys in dict order
                \* (data), the keys whose test_valid is false (discarded),
                \* expired, iters_open, the iterators made on it (its) and the
                \* last call on it (ret)

VARIABLES
    committed   \* a Content that grows by merge_in: its live subjects with
                \* their contexts (subjects), its live modifiers (modifiers),
                \* the number of store ids issued (ctr), the number of merges
                \* (txs) and the last merge_in call (ret)

\* the indexes over a mapper
VARIABLES
    index,      \* an ARFMapperIndex keyed by txs and type: its leaf sets in
                \* insertion order with their last_add (maps), well_sorted, the
                \* store ids discarded from storage (dead), the last call (ret);
                \* when it is the subjects index of a Content, the units of
                \* the committed transactions by store id (timeline)
    indexer     \* an ARFIndexer: its globals index, its OpenTXsIndex with
                \* active_scopes, the units given to it and the last call (ret)

VARIABLES
    uniques,    \* the map of a unique ARFMapperIndex: its keys in dict order
                \* (data), the store id under each key (vals), the store ids
                \* issued (ctr) and discarded from storage (dead), expired,
                \* iters_open, its iterators (its) and the last call (ret)
    tree,       \* a SearchTree: its nodes by identity (node 1 is the anchor),
                \* size, the key of last_found, the set the same operations
                \* give (ref) and the last call (ret)
    composer    \* a TransactionComposer: its txs, the ids it issued
                \* (_made_txses), its transient storage, the units its
                \* transient mapper holds and the last call (ret)

indexVars == <<index, indexer>>

lastVars == <<composer, tree, uniques>>

laterVars == <<feedVars, pc, committed, indexVars, lastVars>>

----------------------------------------------------------------------------
(* Helpers on sequences and sets of integers *)

Max(S) == CHOOSE x \in S : \A y \in S : y <= x

Min(S) == CHOOSE x \in S : \A y \in S : x <= y

RECURSIVE SortedSeq(_)
\* the elements of a finite set of integers, ascending
SortedSeq(S) == IF S = {} THEN <<>> ELSE <<Min(S)>> \o SortedSeq(S \ {Min(S)})

----------------------------------------------------------------------------
(* MemoryOnlyStorage -- src/selfdelimitedblob.py *)

\* the blobs the writer appends
Blobs == {"a", "b"}

\* reset(): lines 72-74, called by __init__
StoreInit ==
    /\ ctr = 0
    /\ store = <<>>
    /\ store_keys = <<>>
    /\ issued = <<>>
    /\ st_ret = [op |-> "init", arg |-> 0, ret |-> None, raised |-> "no"]
    /\ it = [start_id |-> 0, out |-> <<>>]

NextIdReuse(c, s) == Cardinality(DOMAIN s) + 1

\* append: self.ctr += 1
NextId(c, s) == c + 1

\* append(blob): lines 52-57
append(blob) ==
    /\ ctr < MaxAppends
    /\ LET id == NextId(ctr, store) IN
        /\ ctr' = id
        /\ store' = [k \in (DOMAIN store) \cup {id} |->
                        IF k = id THEN blob ELSE store[k]]
        /\ store_keys' = IF id \in DOMAIN store THEN store_keys
                         ELSE Append(store_keys, id)
        /\ issued' = Append(issued, id)
        /\ st_ret' = [op |-> "append", arg |-> 0, ret |-> id, raised |-> "no"]
    /\ UNCHANGED <<it, ioVars, mapperVars, contentVars, laterVars>>

RemoveKey(keys, id) == SelectSeq(keys, LAMBDA k : k # id)

\* discard: if id not in self.store: raise ValueError()
DiscardRaises(id, s) == id \notin DOMAIN s

\* discard(id): lines 59-62
discard(id) ==
    /\ IF DiscardRaises(id, store)
       THEN /\ st_ret' = [op |-> "discard", arg |-> id, ret |-> None,
                          raised |-> "ValueError"]
            /\ UNCHANGED <<store, store_keys>>
       ELSE /\ store' = [k \in (DOMAIN store) \ {id} |-> store[k]]
            /\ store_keys' = RemoveKey(store_keys, id)
            /\ st_ret' = [op |-> "discard", arg |-> id, ret |-> None,
                          raised |-> "no"]
    /\ UNCHANGED <<ctr, issued, it, ioVars, mapperVars, contentVars, laterVars>>

\* What the iterator of read_ctx(start_id) yields when consumed to the end:
\* the items of store in dict order.  start_id is not used by read_ctx.
\* __next__ returns the key and keeps the blob in cur_item.
\* as written: __next__ reads self.cache_iter; read_ctx assigns store_iter.
ItYields(start_id, keys, s) == [i \in 1..Len(keys) |->
                                    [id |-> keys[i], cur_item |-> s[keys[i]]]]

\* read_ctx(start_id) and the consumption of its iterator: lines 76-89
read_ctx(start_id) ==
    /\ it' = [start_id |-> start_id, out |-> ItYields(start_id, store_keys, store)]
    /\ st_ret' = [op |-> "read_ctx", arg |-> start_id, ret |-> None, raised |-> "no"]
    /\ UNCHANGED <<ctr, store, store_keys, issued, ioVars, mapperVars, contentVars, laterVars>>

StoreNext ==
    \/ \E blob \in Blobs : append(blob)
    \/ \E id \in 0..MaxAppends : discard(id)
    \/ \E start_id \in 0..MaxAppends : read_ctx(start_id)

----------------------------------------------------------------------------
(* Data defs and unit types -- src/arf.py, "Data defs", "Units", "ARF" *)

Byte == 0..255

RECURSIVE to_bytes(_, _)
\* int.to_bytes(n, 'little')
to_bytes(v, n) == IF n = 0 THEN <<>> ELSE <<v % 256>> \o to_bytes(v \div 256, n - 1)

RECURSIVE from_bytes(_)
\* int.from_bytes(b, 'little')
from_bytes(b) == IF Len(b) = 0 THEN 0 ELSE b[1] + 256 * from_bytes(Tail(b))

\* DataDef.byte_length(): a number of bytes, or the name of the DataDef of the
\* length prefix.  UInt: (bits - 1) // 8 + 1; ByteInt: 1; RangedUInt: from
\* valid_range.stop - 1 = 512, ten bits.
\* as written: UInt.byte_length and ByteInt.byte_length name
\* bit_length_to_byte_length and valid_range without their class, and UInt128
\* sets bits where UInt reads bit_length.
byte_length(dt) ==
    CASE dt = "UnitTypeID" -> 1
      [] dt = "Bool" -> 1
      [] dt = "StrandGroupMagnitude" -> 1
      [] dt = "TxScopeID" -> (16 - 1) \div 8 + 1
      [] dt = "StrandID" -> (64 - 1) \div 8 + 1
      [] dt = "StrandSize" -> (64 - 1) \div 8 + 1
      [] dt = "StrandDataLength" -> (10 - 1) \div 8 + 1
      [] dt = "UInt128" -> (128 - 1) \div 8 + 1
      [] dt = "StrandData" -> "StrandDataLength"

is_fixed(dt) == dt # "StrandData"

\* DataDef._unsafe_pack
unsafe_pack(dt, v) ==
    CASE dt = "Bool" -> to_bytes(IF v THEN 1 ELSE 0, 1)
      [] dt = "StrandData" -> v
      [] OTHER -> to_bytes(v, byte_length(dt))

\* Bool._unsafe_unpack: bool(b[0])
BoolUnpack(b) == b[1] # 0

\* DataDef._unsafe_unpack
unsafe_unpack(dt, b) ==
    CASE dt = "Bool" -> BoolUnpack(b)
      [] dt = "StrandData" -> b
      [] dt \in {"UnitTypeID", "StrandGroupMagnitude"} -> b[1]
      [] OTHER -> from_bytes(b)

\* the typeids of the registered unit types: base_spec, lines 303-368
TxScopeMarker == 2
TxScopeFinalize == 3
StrandSelect == 4
StrandGroupSelect == 5
StrandWriteDataBlock == 6
StrandCreate == 7
StrandDiscard == 8
FrameMeta == 16

\* UnitTypeID.deleted_range
deleted_range == {0, 1}

\* unit_type.data_spec, built by unit_metaclass from additional_data_defs
data_spec(typeid) ==
    CASE typeid = TxScopeMarker -> <<"UnitTypeID", "TxScopeID", "TxScopeID">>
      [] typeid = TxScopeFinalize -> <<"UnitTypeID", "Bool">>
      [] typeid = StrandSelect -> <<"UnitTypeID", "StrandID">>
      [] typeid = StrandGroupSelect ->
            <<"UnitTypeID", "StrandID", "StrandGroupMagnitude">>
      [] typeid = StrandWriteDataBlock ->
            <<"UnitTypeID", "StrandSize", "StrandData">>
      [] typeid = StrandCreate -> <<"UnitTypeID", "StrandSize">>
      [] typeid = StrandDiscard -> <<"UnitTypeID">>
      [] typeid = FrameMeta -> <<"UnitTypeID", "UInt128">>

----------------------------------------------------------------------------
(* ARFIOWrapper -- src/arf.py, "IO" *)

\* stream.read(n) at cursor p: at most n bytes
stream_read(s, p, n) == SubSeq(s, p + 1, IF p + n > Len(s) THEN Len(s) ELSE p + n)

\* stream.write(b) at cursor p: overwrite in place, growing the stream at its end
stream_write(s, p, b) ==
    [i \in 1..(IF p + Len(b) > Len(s) THEN p + Len(b) ELSE Len(s)) |->
        IF i > p /\ i <= p + Len(b) THEN b[i - p] ELSE s[i]]

\* _read_data(datatype) for a fixed-length datatype: lines 391-396
\* [ok, v, pos]; not ok is UnitDataFormatError("reading past end of buffer")
read_fixed(s, p, dt) ==
    LET sz == byte_length(dt)
        data == stream_read(s, p, sz)
    IN IF Len(data) # sz THEN [ok |-> FALSE, v |-> 0, pos |-> Len(s)]
       ELSE [ok |-> TRUE, v |-> unsafe_unpack(dt, data), pos |-> p + sz]

\* _get_next_piece_length(datatype): lines 382-389.  A variable length is read
\* from the stream as the length datatype.
get_next_piece_length(s, p, dt) ==
    IF is_fixed(dt) THEN [ok |-> TRUE, v |-> byte_length(dt), pos |-> p]
    ELSE read_fixed(s, p, byte_length(dt))

\* _read_data(datatype): lines 391-396
read_data(s, p, dt) ==
    IF is_fixed(dt) THEN read_fixed(s, p, dt)
    ELSE LET l == get_next_piece_length(s, p, dt)
             data == stream_read(s, l.pos, l.v)
         IN IF ~l.ok \/ Len(data) # l.v
            THEN [ok |-> FALSE, v |-> 0, pos |-> Len(s)]
            ELSE [ok |-> TRUE, v |-> unsafe_unpack(dt, data), pos |-> l.pos + l.v]

RECURSIVE skip_deleted(_, _)
\* read_next, lines 412-413: while self._read_data(Bool): pass
skip_deleted(s, p) ==
    LET r == read_fixed(s, p, "Bool")
    IN IF ~r.ok THEN r
       ELSE IF r.v THEN skip_deleted(s, r.pos)
       ELSE r

RECURSIVE read_pieces(_, _, _, _, _, _)
\* read_next, lines 423-429: the pieces after the typeid; a piece that is not
\* chosen is seeked over and kept as None.
\* as written: islice(enumerate(...), start=len(unit_pcs)).
read_pieces(s, p, ds, i, choice_indices, unit_pcs) ==
    IF i > Len(ds) THEN [ok |-> TRUE, v |-> unit_pcs, pos |-> p]
    ELSE IF (i - 1) \in choice_indices
         THEN LET r == read_data(s, p, ds[i])
              IN IF ~r.ok THEN r
                 ELSE read_pieces(s, r.pos, ds, i + 1, choice_indices,
                                  Append(unit_pcs, r.v))
         ELSE LET l == get_next_piece_length(s, p, ds[i])
              IN IF ~l.ok THEN l
                 ELSE read_pieces(s, l.pos + l.v, ds, i + 1, choice_indices,
                                  Append(unit_pcs, None))

\* the value of select that stands for select=None
select_all == <<None>>

\* read_next, lines 410-414: the typeid is in the deleted range; e is the end
\* of the skipped record
read_next_deleted(e) == [ok |-> e.ok, deleted |-> TRUE, v |-> <<>>, pos |-> e.pos]

\* read_next, lines 431-433: the Unit's pieces, or the pieces picked by select
\* as written: unit_pcs is indexed by the members of select, not by
\* choice_indices; the two agree when select holds piece indices.
read_next_live(select, r) ==
    IF ~r.ok THEN [ok |-> FALSE, deleted |-> FALSE, v |-> <<>>, pos |-> r.pos]
    ELSE [ok |-> TRUE, deleted |-> FALSE, pos |-> r.pos,
          v |-> IF select = select_all THEN r.v
                ELSE [j \in 1..Len(select) |-> r.v[select[j] + 1]]]

\* read_next, lines 416-421: the indices of the pieces to read
choice_indices_of(select, ds) ==
    IF select = select_all THEN 0..(Len(ds) - 1)
    ELSE {select[j] : j \in 1..Len(select)}

\* read_next, after the typeid t was read
read_next_typed(s, select, t) ==
    IF ~t.ok THEN [ok |-> FALSE, deleted |-> FALSE, v |-> <<>>, pos |-> t.pos]
    ELSE IF t.v \in deleted_range
    THEN read_next_deleted(IF t.v = 1 THEN skip_deleted(s, t.pos) ELSE t)
    ELSE read_next_live(select,
            read_pieces(s, t.pos, data_spec(t.v), 2,
                        choice_indices_of(select, data_spec(t.v)), <<t.v>>))

\* read_next(select): lines 398-433.  select is a list of piece indices.
\* [ok, deleted, v, pos]: deleted is the return value None; v the Unit's pieces
\* or the selected pieces.
read_next_at(s, p, select) == read_next_typed(s, select, read_fixed(s, p, "UnitTypeID"))

\* skip_next(): lines 437-438
\* as written: self._read_next([]).
skip_next_at(s, p) == read_next_at(s, p, <<>>)

RECURSIVE write_pieces(_, _, _)
\* write_unit / _write_data: lines 442-453; a variable-length piece is written
\* after its length
write_pieces(ds, pcs, i) ==
    IF i > Len(ds) THEN <<>>
    ELSE LET packed == unsafe_pack(ds[i], pcs[i])
             prefix == IF is_fixed(ds[i]) THEN <<>>
                       ELSE unsafe_pack(byte_length(ds[i]), Len(packed))
         IN prefix \o packed \o write_pieces(ds, pcs, i + 1)

unit_bytes(unit) == write_pieces(data_spec(unit[1]), unit, 1)

RepeatByte(b, n) == [i \in 1..n |-> b]

DeletedEncodingNoTerminator(sz) == RepeatByte(1, sz)

\* delete_next, lines 466-473: what is written over a record of sz bytes
DeletedEncoding(sz) ==
    IF sz = byte_length("UnitTypeID") THEN unsafe_pack("UnitTypeID", 0)
    ELSE unsafe_pack("UnitTypeID", 1)
         \o RepeatByte(1, sz - byte_length("UnitTypeID") - 1) \o <<0>>

\* delete_next, lines 465-473: seek back to p and write b
delete_write(s, p, b) ==
    [stream |-> stream_write(s, p, b), pos |-> p + Len(b), ok |-> TRUE, live |-> TRUE]

\* delete_next, lines 462-464: k is what skip_next did
delete_after_skip(s, p, k) ==
    IF ~k.ok \/ k.deleted
    THEN [stream |-> s, pos |-> k.pos, ok |-> k.ok, live |-> FALSE]
    ELSE delete_write(s, p, DeletedEncoding(k.pos - p))

\* delete_next(): lines 460-473, [stream, pos, ok, live]
delete_next_at(s, p) == delete_after_skip(s, p, skip_next_at(s, p))

\* the units the writer writes: one byte, two bytes, and longer ones, the last
\* with a variable-length piece whose bytes are 0 and 1
IOUnits == { <<StrandDiscard>>,
             <<TxScopeFinalize, TRUE>>,
             <<TxScopeMarker, 0, 1>>,
             <<StrandWriteDataBlock, 4096, <<0, 1>>>> }

\* the values of select the callers pass: None, [] and [typeid]
IOSelects == { select_all, <<>>, <<0>> }

\* the record that starts at offset p, 0 if none
RecordAt(p) == IF \E i \in 1..Len(offs) : offs[i] = p
               THEN CHOOSE i \in 1..Len(offs) : offs[i] = p ELSE 0

\* the end offset of record i
RecordEnd(i) == IF i = Len(offs) THEN Len(stream) ELSE offs[i + 1]

IOInit ==
    /\ stream = <<>>
    /\ pos = 0
    /\ offs = <<>>
    /\ io_ret = [op |-> "init", ok |-> TRUE, deleted |-> FALSE, v |-> <<>>,
                 rec |-> 0, live |-> FALSE]

\* write_unit(unit) at the end of the stream: lines 451-453
write_unit(unit) ==
    /\ Len(offs) < MaxRecords
    /\ pos = Len(stream)
    /\ stream' = stream_write(stream, pos, unit_bytes(unit))
    /\ pos' = pos + Len(unit_bytes(unit))
    /\ offs' = Append(offs, pos)
    /\ io_ret' = [op |-> "write_unit", ok |-> TRUE, deleted |-> FALSE, v |-> <<>>,
                  rec |-> Len(offs) + 1, live |-> FALSE]
    /\ UNCHANGED <<storeVars, mapperVars, contentVars, laterVars>>

\* the storage places the cursor at the start of a record, or at the end of
\* the stream to append
seek(p) ==
    /\ pos # p
    /\ pos' = p
    /\ io_ret' = [op |-> "seek", ok |-> TRUE, deleted |-> FALSE, v |-> <<>>,
                  rec |-> RecordAt(p), live |-> FALSE]
    /\ UNCHANGED <<stream, offs, storeVars, mapperVars, contentVars, laterVars>>

read_next_returns(r) ==
    /\ pos' = r.pos
    /\ io_ret' = [op |-> "read_next", ok |-> r.ok, deleted |-> r.deleted,
                  v |-> r.v, rec |-> RecordAt(pos), live |-> FALSE]
    /\ UNCHANGED <<stream, offs, storeVars, mapperVars, contentVars, laterVars>>

\* read_next(select): lines 398-433
read_next(select) == read_next_returns(read_next_at(stream, pos, select))

delete_next_returns(d) ==
    /\ stream' = d.stream
    /\ pos' = d.pos
    /\ io_ret' = [op |-> "delete_next", ok |-> d.ok, deleted |-> FALSE,
                  v |-> <<>>, rec |-> RecordAt(pos), live |-> d.live]
    /\ UNCHANGED <<offs, storeVars, mapperVars, contentVars, laterVars>>

\* delete_next(): lines 460-473
delete_next == delete_next_returns(delete_next_at(stream, pos))

IONext ==
    \/ \E unit \in IOUnits : write_unit(unit)
    \/ \E p \in {offs[i] : i \in 1..Len(offs)} \cup {Len(stream)} : seek(p)
    \/ \E select \in IOSelects : read_next(select)
    \/ delete_next

\* the bytes of a stream that the wrapper is given to read: the typeids 0 and
\* 1 of deleted records, TxScopeMarker, TxScopeFinalize, and as the bytes that
\* follow them the Bool bytes 0 and 1 and two other values
RawBytes == {0, 1, 2, 3}

\* stream.write(bytes((b,))) at the end of the stream, by the owner of the
\* stream
stream_put(b) ==
    /\ Len(stream) < MaxRawBytes
    /\ stream' = stream_write(stream, Len(stream), <<b>>)
    /\ pos' = Len(stream) + 1
    /\ io_ret' = [op |-> "write", ok |-> TRUE, deleted |-> FALSE, v |-> <<>>,
                  rec |-> 0, live |-> FALSE]
    /\ UNCHANGED <<offs, storeVars, mapperVars, contentVars, laterVars>>

\* a stream of any bytes is read from its start
RawIONext ==
    \/ \E b \in RawBytes : stream_put(b)
    \/ seek(0)
    \/ \E select \in IOSelects : read_next(select)

----------------------------------------------------------------------------
(* The storage the mapper scans.  ARFMapper calls storage.multi_read_iter,  *)
(* storage.read, storage.discard and "id in storage"; MemoryOnlyStorage     *)
(* gives the ids (append) and the other methods follow the storage          *)
(* contract.                                                                *)

\* transaction scope ids the writer uses
TxsIds == {0, 1}

\* the units the writer appends to the scanned storage
LogUnits == { <<FrameMeta, 0>> }
            \cup { <<TxScopeMarker, p, 1 - p>> : p \in TxsIds }
            \cup { <<TxScopeFinalize, TRUE>>,
                   <<StrandSelect, 1>>,
                   <<StrandGroupSelect, 0, 1>>,
                   <<StrandWriteDataBlock, 0, <<1>>>> }

\* "id in storage": the id was appended and is not deleted
storage_contains(lg, id) == id \in 1..Len(lg) /\ ~lg[id].deleted

\* storage.read(id, select): the selected pieces, select a list of piece indices
storage_read(lg, id, select) == [j \in 1..Len(select) |-> lg[id].unit[select[j] + 1]]

\* storage.multi_read_iter(start_id, ...): the first id it yields from start_id
\* on, the id of a record that is not deleted; past the end if there is none
RECURSIVE next_live(_, _)
next_live(lg, id) ==
    IF id > Len(lg) THEN id
    ELSE IF id >= 1 /\ ~lg[id].deleted THEN id
    ELSE next_live(lg, id + 1)

----------------------------------------------------------------------------
(* ARFMapper -- src/arf.py, "Mapping" *)

\* issubclass(ut, TXUnit), TXModifier, TXSubject: lines 228-235, 303-364
is_TXUnit(typeid) == typeid \in {TxScopeFinalize, StrandSelect, StrandGroupSelect,
                                 StrandWriteDataBlock, StrandCreate, StrandDiscard}

is_TXModifier(typeid) == typeid \in {TxScopeFinalize, StrandSelect, StrandGroupSelect}

is_TXSubject(typeid) == typeid \in {StrandWriteDataBlock, StrandCreate, StrandDiscard}

\* ARFSpec.txmods: the TXModifier types in registration order, lines 286-287
txmods == <<TxScopeFinalize, StrandSelect, StrandGroupSelect>>

\* ut_listing.txmods.index(ut), counted from 1
txmods_index(typeid) == CHOOSE i \in 1..Len(txmods) : txmods[i] = typeid

\* unit_type.cached as a list of piece indices: lines 310, 315, 325, 353, 359
cached(typeid) ==
    CASE typeid \in {TxScopeFinalize, StrandSelect, StrandWriteDataBlock,
                     StrandCreate} -> <<1>>
      [] typeid = StrandGroupSelect -> <<1, 2>>
      [] OTHER -> <<>>

\* UnitInfo.__init__, lines 586-592, for a TXModifier: its modifier id
\* as written: the TXSubject branch copies txsmod_ids; the parameter is txmod_ids.
ModAssocOfModifier(typeid, txmod_ids) == <<txmod_ids[txmods_index(typeid)]>>

\* UnitInfo.__init__: lines 569-592.  cached_pcs and mod_assoc are kept as
\* sequences: one cached piece is <<piece>>, a modifier id is <<id>>, None is <<>>.
UnitInfo(lg, store_id, typeid, cur, txmod_ids) ==
    [store_id |-> store_id,
     txs |-> IF is_TXUnit(typeid) THEN cur ELSE None,
     typeid |-> typeid,
     cached_pcs |-> storage_read(lg, store_id, cached(typeid)),
     mod_assoc |-> IF is_TXModifier(typeid) THEN ModAssocOfModifier(typeid, txmod_ids)
                   ELSE IF is_TXSubject(typeid) THEN txmod_ids
                   ELSE <<>>]

\* collections.defaultdict(lambda: [0] * len(txmods)): reading a missing key
\* inserts it
defaultdict_get(d, k) ==
    IF k \in DOMAIN d THEN d
    ELSE [x \in (DOMAIN d) \cup {k} |->
            IF x = k THEN [i \in 1..Len(txmods) |-> 0] ELSE d[x]]

\* UnitsMap.__setitem__: lines 626-631
UnitsMap_setitem(m, k, v) ==
    IF k <= m.last_sync_id THEN [m EXCEPT !.raised = "ValueError"]
    ELSE [m EXCEPT !.units = [x \in (DOMAIN m.units) \cup {k} |->
                                IF x = k THEN v ELSE m.units[x]],
                   !.last_sync_id = k,
                   !.total = m.total + 1]

MarkerKeepsPrev(prev_txs, next_txs) == prev_txs

\* _map_unit, line 680: self.cur_txscope = next_txs
MarkerSetsScope(prev_txs, next_txs) == next_txs

ModifierBumpsNone(mod_nexts, mod_i) == mod_nexts

\* _map_unit, lines 685-687: another modifier adds one to the next id of its type
ModifierBumpsOwn(mod_nexts, mod_i) == [mod_nexts EXCEPT ![mod_i] = mod_nexts[mod_i] + 1]

FinalizeBumpsOwn(mod_nexts) ==
    [mod_nexts EXCEPT ![txmods_index(TxScopeFinalize)] =
                        mod_nexts[txmods_index(TxScopeFinalize)] + 1]

FinalizeResetsAll(mod_nexts) == [i \in 1..Len(mod_nexts) |-> 0]

\* _map_unit, lines 682-684: a TxScopeFinalize adds one to every next id
FinalizeBumpsAll(mod_nexts) == [i \in 1..Len(mod_nexts) |-> mod_nexts[i] + 1]

\* _map_unit, lines 676-687: what follows self.units[store_id] = ui
map_unit_effects(m, lg, store_id, typeid) ==
    IF m.raised # "no" THEN m
    ELSE IF typeid = TxScopeMarker
    THEN IF lg[store_id].unit[2] # m.cur
         THEN [m EXCEPT !.raised = "AssertionError"]
         ELSE [m EXCEPT !.cur = MarkerSetsScope(lg[store_id].unit[2],
                                                lg[store_id].unit[3])]
    ELSE IF is_TXModifier(typeid)
    THEN IF typeid = TxScopeFinalize
         THEN [m EXCEPT !.nexts[m.cur] = FinalizeBumpsAll(m.nexts[m.cur])]
         ELSE [m EXCEPT !.nexts[m.cur] = ModifierBumpsOwn(m.nexts[m.cur],
                                                          txmods_index(typeid))]
    ELSE m

\* _map_unit, lines 671-674: mod_nexts, the UnitInfo, self.units[store_id] = ui
map_unit_insert(m, lg, store_id, typeid) ==
    UnitsMap_setitem(m, store_id,
        UnitInfo(lg, store_id, typeid, m.cur,
                 IF m.cur = None THEN <<>> ELSE m.nexts[m.cur]))

\* _map_unit(store_id, ut): lines 669-687
map_unit(m, lg, store_id, typeid) ==
    IF is_TXUnit(typeid) /\ m.cur = None
    THEN [m EXCEPT !.raised = "AssertionError"]
    ELSE map_unit_effects(
            map_unit_insert(
                IF m.cur = None THEN m
                ELSE [m EXCEPT !.nexts = defaultdict_get(m.nexts, m.cur)],
                lg, store_id, typeid),
            lg, store_id, typeid)

\* read_it(st), line 690: a call of storage.multi_read_iter(st, ...), noted in
\* the history of the reads of this sync() call with the phase that makes it
\* and units.last_sync_id at that moment
read_it(m, phase, st) ==
    [m EXCEPT !.reads = Append(m.reads, [phase |-> phase, start |-> st,
                                         mapped |-> m.last_sync_id])]

MainLoopStartAfterScan(m) == m.scan + 1

MainLoopStartBehind(m) == m.last_sync_id

\* _sync_gen_func, line 718: the main loop reads from units.last_sync_id + 1
main_loop_start(m) == m.last_sync_id + 1

RECURSIVE scan_C(_, _, _)
\* _sync_gen_func, lines 717-720: the main loop, up to its yield; id is the next
\* id multi_read_iter looks at
scan_C(m, lg, id) ==
    IF m.raised # "no" THEN [m EXCEPT !.phase = "finished"]
    ELSE IF next_live(lg, id) > Len(lg) THEN [m EXCEPT !.phase = "C"]
    ELSE scan_C(map_unit(m, lg, next_live(lg, id), lg[next_live(lg, id)].unit[1]),
                lg, next_live(lg, id) + 1)

RECURSIVE scan_B(_, _, _)
\* _sync_gen_func, lines 704-714: skim for the first TxScopeMarker; its prev-txs
\* becomes cur_txscope, then the main loop starts at units.last_sync_id + 1
\* as written: line 712 assigns what storage.read returns for select=['prev-txs'],
\* the pieces; the prev-txs piece is meant.
scan_B(m, lg, id) ==
    IF m.cur # None
    THEN scan_C(read_it(m, "C", main_loop_start(m)), lg, main_loop_start(m))
    ELSE IF next_live(lg, id) > Len(lg) THEN [m EXCEPT !.phase = "B"]
    ELSE IF lg[next_live(lg, id)].unit[1] = TxScopeMarker
    THEN scan_B([m EXCEPT !.scan = next_live(lg, id),
                          !.cur = lg[next_live(lg, id)].unit[2]],
                lg, next_live(lg, id) + 1)
    ELSE scan_B([m EXCEPT !.scan = next_live(lg, id)], lg, next_live(lg, id) + 1)

RECURSIVE scan_A(_, _, _)
\* _sync_gen_func, lines 693-702: map units until a TXUnit comes up; then
\* line 705, last_scan_ahead_id = self.units.last_sync_id
scan_A(m, lg, id) ==
    IF m.raised # "no" THEN [m EXCEPT !.phase = "finished"]
    ELSE IF next_live(lg, id) > Len(lg) THEN [m EXCEPT !.phase = "A"]
    ELSE IF is_TXUnit(lg[next_live(lg, id)].unit[1])
    THEN scan_B(read_it([m EXCEPT !.scan = m.last_sync_id], "B", m.last_sync_id + 1),
                lg, m.last_sync_id + 1)
    ELSE scan_A(map_unit(m, lg, next_live(lg, id), lg[next_live(lg, id)].unit[1]),
                lg, next_live(lg, id) + 1)

\* next(self._sync_gen): resume the generator where it is suspended.  A
\* generator that ended with an exception raises StopIteration.
sync_gen_next(m, lg) ==
    CASE m.phase = "A" -> scan_A(read_it(m, "A", m.last_sync_id + 1), lg,
                                 m.last_sync_id + 1)
      [] m.phase = "B" -> scan_B(read_it(m, "B", m.scan + 1), lg, m.scan + 1)
      [] m.phase = "C" -> scan_C(read_it(m, "C", main_loop_start(m)), lg,
                                 main_loop_start(m))
      [] m.phase = "finished" -> [m EXCEPT !.raised = "StopIteration"]

\* the mapper's fields that the generator works on, and the reads of storage
\* that this sync() call makes
mapper_now ==
    [units |-> units, last_sync_id |-> last_sync_id,
     total |-> total_lifetime_units_mapped, cur |-> cur_txscope,
     nexts |-> mod_next_ids_per_txs, phase |-> sync_gen.phase,
     scan |-> sync_gen.last_scan_ahead_id, raised |-> "no",
     reads |-> <<>>]

NotifyAlways(last_notify, last_sync) == TRUE

\* maybe_send_notify_extend, line 634
NotifyDue(last_notify, last_sync) == last_notify # last_sync

\* sync(): lines 724-726, with maybe_send_notify_extend, lines 633-637.  Every
\* feed has the default recv_extend, which does not touch its iterator.
sync_returns(m) ==
    /\ units' = m.units
    /\ last_sync_id' = m.last_sync_id
    /\ total_lifetime_units_mapped' = m.total
    /\ cur_txscope' = m.cur
    /\ mod_next_ids_per_txs' = m.nexts
    /\ sync_gen' = [phase |-> m.phase, last_scan_ahead_id |-> m.scan]
    /\ IF m.raised = "no" /\ NotifyDue(last_notify_sync_id, m.last_sync_id)
       THEN /\ last_notify_sync_id' = m.last_sync_id
            /\ sync_ret' = [raised |-> m.raised, log_len |-> Len(log),
                            notified |-> Len(all_feeds),
                            repeat |-> sync_ret.log_len = Len(log),
                            reads |-> m.reads]
       ELSE /\ last_notify_sync_id' = last_notify_sync_id
            /\ sync_ret' = [raised |-> m.raised, log_len |-> Len(log),
                            notified |-> 0,
                            repeat |-> sync_ret.log_len = Len(log),
                            reads |-> m.reads]
    /\ UNCHANGED <<log, all_feeds, storeVars, ioVars, contentVars, laterVars>>

sync == sync_returns(sync_gen_next(mapper_now, log))

\* storage.append(unit): the next id, as MemoryOnlyStorage.append gives it
storage_write(unit) ==
    /\ log' = Append(log, [unit |-> unit, deleted |-> FALSE])
    /\ UNCHANGED <<units, last_sync_id, last_notify_sync_id,
                   total_lifetime_units_mapped, cur_txscope,
                   mod_next_ids_per_txs, sync_gen, all_feeds, sync_ret,
                   storeVars, ioVars, contentVars, laterVars>>

\* the writer appends any unit, up to MaxLog records
storage_append(unit) == Len(log) < MaxLog /\ storage_write(unit)

\* storage.discard(id): the record is deleted in place
storage_discard(id) ==
    /\ storage_contains(log, id)
    /\ Cardinality({k \in 1..Len(log) : log[k].deleted}) < MaxDiscards
    /\ log' = [log EXCEPT ![id].deleted = TRUE]
    /\ UNCHANGED <<units, last_sync_id, last_notify_sync_id,
                   total_lifetime_units_mapped, cur_txscope,
                   mod_next_ids_per_txs, sync_gen, all_feeds, sync_ret,
                   storeVars, ioVars, contentVars, laterVars>>

\* Feed.__init__, lines 602-605
Feed == [last_sync_id |-> 0 - 1, recv_extend |-> "_nop", recv_delete |-> "_nop"]

\* getfeed(): lines 750-753
getfeed ==
    /\ Len(all_feeds) < MaxFeeds
    /\ all_feeds' = Append(all_feeds, Feed)
    /\ UNCHANGED <<log, units, last_sync_id, last_notify_sync_id,
                   total_lifetime_units_mapped, cur_txscope,
                   mod_next_ids_per_txs, sync_gen, sync_ret, storeVars, ioVars,
                   contentVars, laterVars>>

\* ARFMapper.__init__, lines 646-664, UnitsMap.__init__, lines 620-624, over an
\* empty storage
\* as written: line 664 calls _sync_gen_func() without self.
MapperInit ==
    /\ log = <<>>
    /\ units = <<>>
    /\ last_sync_id = 0 - 1
    /\ last_notify_sync_id = 0 - 1
    /\ total_lifetime_units_mapped = 0
    /\ cur_txscope = None
    /\ mod_next_ids_per_txs = <<>>
    /\ sync_gen = [phase |-> "A", last_scan_ahead_id |-> 0 - 1]
    /\ all_feeds = <<>>
    /\ sync_ret = [raised |-> "none", log_len |-> 0 - 1, notified |-> 0,
                   repeat |-> FALSE, reads |-> <<>>]

MapperNext ==
    \/ \E unit \in LogUnits : storage_append(unit)
    \/ \E id \in 1..Len(log) : storage_discard(id)
    \/ getfeed
    \/ sync

----------------------------------------------------------------------------
(* Content and SubjectWithContext -- src/arf.py, "Content" *)

ModIdOffByOne(ui) == ui.mod_assoc[1] + 1

\* UnitInfo._get_single_no_read, lines 552-553: ui["mod_id"] of a modifier
mod_id(ui) == ui.mod_assoc[1]

\* UnitInfo._get_single_no_read, lines 549-551: subj[mt], mt a modifier type
subj_mod(subj, mt) == subj.mod_assoc[txmods_index(mt)]

\* Content.modifiers, lines 1098-1099: the index of the modifiers of a Content
\* that holds every transaction unit the mapper has mapped, keyed by
\* (txs, type, mod_id)
modifiers(us) == {k \in DOMAIN us : is_TXModifier(us[k].typeid)}

\* _context_for, line 1117
\* as written: the key is built from subj[txs]; subj["txs"] is meant.
mod_index_ks(subj) ==
    {<<subj.txs, txmods[i], subj_mod(subj, txmods[i])>> : i \in 1..Len(txmods)}

\* _context_for, line 1118: the Query over the modifiers index
Query(us, ks) ==
    {k \in modifiers(us) : <<us[k].txs, us[k].typeid, mod_id(us[k])>> \in ks}

\* SubjectWithContext.__init__, lines 988-993: the strict test of one modifier
affects(subj, m) == subj.txs = m.txs /\ subj_mod(subj, m.typeid) = mod_id(m)

\* SubjectWithContext.__init__, line 994: self.mods, by position in txmods, the
\* store_id of the modifier bound for that type or None
bound_mods(us, q) ==
    [i \in 1..Len(txmods) |->
        IF \E k \in q : us[k].typeid = txmods[i]
        THEN Max({k \in q : us[k].typeid = txmods[i]})
        ELSE None]

FinalizeReleasesNever(us, mods) == FALSE

\* SubjectWithContext.__init__, lines 999-1002: a finalize is bound and its
\* is-commit is false
finalize_releases(us, mods) ==
    /\ mods[txmods_index(TxScopeFinalize)] # None
    /\ ~us[mods[txmods_index(TxScopeFinalize)]].cached_pcs[1]

\* SubjectWithContext.__init__, lines 999-1008, given self.mods
\* as written: line 999 tests TXScopeFinalize; TxScopeFinalize is meant.
context_of(us, subj, mods) ==
    IF finalize_releases(us, mods)
    THEN [subj |-> subj.store_id, raised |-> "ValueError", mods |-> mods,
          strand |-> None]
    ELSE IF subj.typeid \in {StrandWriteDataBlock, StrandCreate}
    THEN IF mods[txmods_index(StrandSelect)] = None
         THEN [subj |-> subj.store_id, raised |-> "KeyError", mods |-> mods,
               strand |-> None]
         ELSE [subj |-> subj.store_id, raised |-> "no", mods |-> mods,
               strand |-> us[mods[txmods_index(StrandSelect)]].cached_pcs[1]]
    ELSE IF mods[txmods_index(StrandGroupSelect)] = None
    THEN [subj |-> subj.store_id, raised |-> "KeyError", mods |-> mods,
          strand |-> None]
    ELSE [subj |-> subj.store_id, raised |-> "no", mods |-> mods, strand |-> None]

\* SubjectWithContext(subj, mods), strict: lines 979-1008
SubjectWithContext(us, subj, q) ==
    IF \E k \in q : ~affects(subj, us[k])
    THEN [subj |-> subj.store_id, raised |-> "ValueError",
          mods |-> [i \in 1..Len(txmods) |-> None], strand |-> None]
    ELSE context_of(us, subj, bound_mods(us, q))

\* Content._context_for(subj): lines 1115-1119
context_for(k) ==
    /\ k \in DOMAIN units
    /\ is_TXSubject(units[k].typeid)
    /\ ctx' = SubjectWithContext(units, units[k], Query(units, mod_index_ks(units[k])))
    /\ UNCHANGED <<storeVars, ioVars, mapperVars, laterVars>>

ContentInit ==
    ctx = [subj |-> None, raised |-> "none",
           mods |-> [i \in 1..Len(txmods) |-> None], strand |-> None]

\* the writer of the log a Content is built over
content_append(unit) == Len(log) < MaxContentLog /\ storage_write(unit)

\* the units the writer appends to the log a Content is built over
ContentUnits == LogUnits \cup { <<TxScopeFinalize, FALSE>> }

ContentNext ==
    \/ \E unit \in ContentUnits : content_append(unit)
    \/ sync
    \/ \E k \in 1..Len(log) : context_for(k)

\* Scenario S3: one transaction scope with two selects, a write, a third
\* select and a second write; the marker that follows gives the scope its id
S3Script ==
    << <<StrandSelect, 1>>, <<StrandSelect, 2>>,
       <<StrandWriteDataBlock, 0, <<120>>>>,
       <<StrandSelect, 3>>,
       <<StrandWriteDataBlock, 512, <<121>>>>,
       <<TxScopeMarker, 0, 1>> >>

S3_append == Len(log) < Len(S3Script) /\ storage_write(S3Script[Len(log) + 1])

S3Next ==
    \/ S3_append
    \/ \E id \in 1..Len(log) : storage_discard(id)
    \/ getfeed
    \/ sync
    \/ \E k \in 1..Len(log) : context_for(k)

\* Scenario S4: a marker from scope 0 to scope 1, a transaction that creates
\* strand 5 and commits, and a second transaction that creates it again
S4Script ==
    << <<TxScopeMarker, 0, 1>>,
       <<StrandSelect, 5>>, <<StrandCreate, 1024>>, <<TxScopeFinalize, TRUE>>,
       <<StrandSelect, 5>>, <<StrandCreate, 2048>>, <<TxScopeFinalize, TRUE>> >>

S4_append == Len(log) < Len(S4Script) /\ storage_write(S4Script[Len(log) + 1])

S4Next ==
    \/ S4_append
    \/ \E id \in 1..Len(log) : storage_discard(id)
    \/ getfeed
    \/ sync

----------------------------------------------------------------------------
(* Feeds, and ARFMapper.units as a perishable map -- src/arf.py, lines      *)
(* 598-643 and 724-753; src/containers/perishables.py                       *)

\* the units the writer appends to the storage a mapper with feeds scans
FeedUnits == { <<FrameMeta, 0>>, <<TxScopeMarker, 0, 1>> }

\* a Feed whose recv_extend consumes the iterator it is given, as
\* ARFIndexer._recv_extend does: lines 1231-1233
ConsumingFeed ==
    [last_sync_id |-> 0 - 1, recv_extend |-> "consume", recv_delete |-> "_nop"]

\* the state a call on the mapper or on a feed works on: the mapper's fields m,
\* units.expired, the feeds, last_notify_sync_id, and what the call has done so
\* far: ext, per feed the number of recv_extend calls; dels, the recv_delete
\* calls; released, the ids released from units; nested, the depth of the
\* deepest sync() entered; yields, per feed the ids its iter_new_units has
\* yielded, in the order of the yields
call_state ==
    [m |-> mapper_now, expired |-> units_expired, feeds |-> all_feeds,
     last_notify |-> last_notify_sync_id, delivered |-> delivered,
     ext |-> [f \in 1..Len(all_feeds) |-> 0], dels |-> {}, released |-> {},
     nested |-> 0, raised |-> "no", yields |-> [f \in 1..Len(all_feeds) |-> <<>>]]

NotifyDeleteAlways(k, feed_last_sync_id) == TRUE

\* Feed.notify_delete, line 616: the guard
NotifyDeleteDue(k, feed_last_sync_id) == k <= feed_last_sync_id

ReleaseNotifiesNone(feeds, ks) == {}

\* UnitsMap.__delitem__, lines 639-642, with Feed.notify_delete, lines 615-617:
\* the recv_delete calls made when the ids ks are deleted from units
ReleaseNotifies(feeds, ks) ==
    {[feed |-> f, k |-> k, last_sync_id |-> feeds[f].last_sync_id] :
        <<f, k>> \in {x \in (1..Len(feeds)) \X ks :
                        NotifyDeleteDue(x[2], feeds[x[1]].last_sync_id)}}

\* the map us without the keys ks
without(us, ks) == [k \in (DOMAIN us) \ ks |-> us[k]]

\* try_release_expired with no iterator open, perishables.py lines 54-60, with
\* PerishablesMapMixin._release_action, lines 84-88: del self[k] for every
\* expired k, a KeyError for a k that is not in the map passed over
release(st) ==
    [st EXCEPT !.m.units = without(st.m.units, st.expired),
               !.dels = st.dels \cup ReleaseNotifies(st.feeds,
                                        st.expired \cap DOMAIN st.m.units),
               !.released = st.released \cup (st.expired \cap DOMAIN st.m.units),
               !.expired = {}]

\* the valid keys among ks: _unit_valid_test, lines 666-667
valid_keys(lg, ks) == {k \in ks : storage_contains(lg, k)}

\* Feed.iter_new_units, lines 607-610, consumed to the end over
\* units[start:].items(): every valid key from start on is yielded and becomes
\* the feed's last_sync_id, every other key is put into expired
\* (_iter_wrapper, perishables.py lines 71-77), and when the iterator closes
\* the expired keys are released (_iter_context, lines 62-69)
consume_slice(st, lg, f, ks) ==
    release([st EXCEPT
        !.feeds[f].last_sync_id =
            IF valid_keys(lg, ks) = {} THEN st.feeds[f].last_sync_id
            ELSE Max(valid_keys(lg, ks)),
        !.delivered[f] = st.delivered[f] \cup valid_keys(lg, ks),
        !.yields[f] = st.yields[f] \o SortedSeq(valid_keys(lg, ks)),
        !.expired = st.expired \cup (ks \ valid_keys(lg, ks))])

\* the keys of units[start:]
keys_from(us, start) == {k \in DOMAIN us : k >= start}

RECURSIVE sync_call(_, _, _)
RECURSIVE notify_feeds(_, _, _, _)

\* iter_units, lines 746-748, after the first slice: sync(), then the slice
\* from max(last_id_before_sync + 1, start)
iter_units_rest(st, lg, d, f, second_start) ==
    IF st.raised # "no" THEN st
    ELSE consume_slice(st, lg, f, keys_from(st.m.units, second_start))

SecondStartSame(last_id_before_sync, start) == start

\* iter_units, line 748: max(last_id_before_sync + 1, start)
second_start(last_id_before_sync, start) ==
    IF last_id_before_sync + 1 > start THEN last_id_before_sync + 1 ELSE start

\* iter_units(start) consumed by feed f's callback or owner: lines 742-748
iter_units(st, lg, d, f, start) ==
    iter_units_rest(
        sync_call(consume_slice(release(st), lg, f,
                                keys_from(release(st).m.units, start)),
                  lg, d + 1),
        lg, d, f, second_start(st.m.last_sync_id, start))

\* Feed.notify_extend, lines 612-613: recv_extend(self.iter_new_units()); the
\* default recv_extend leaves the iterator alone
notify_extend(st, lg, d, f) ==
    IF st.feeds[f].recv_extend = "_nop"
    THEN [st EXCEPT !.ext[f] = st.ext[f] + 1]
    ELSE iter_units([st EXCEPT !.ext[f] = st.ext[f] + 1], lg, d, f,
                    st.feeds[f].last_sync_id + 1)

\* maybe_send_notify_extend, lines 635-636: the loop over the feeds
notify_feeds(st, lg, d, f) ==
    IF st.raised # "no" \/ f > Len(st.feeds) THEN st
    ELSE notify_feeds(notify_extend(st, lg, d, f), lg, d, f + 1)

\* maybe_send_notify_extend, line 637, reached if no callback raised
notify_done(st) ==
    IF st.raised # "no" THEN st ELSE [st EXCEPT !.last_notify = st.m.last_sync_id]

\* sync() after next(self._sync_gen): lines 725-726 and 633-637
sync_after_next(st, lg, d) ==
    IF st.m.raised # "no" THEN [st EXCEPT !.raised = st.m.raised]
    ELSE IF NotifyDue(st.last_notify, st.m.last_sync_id)
    THEN notify_done(notify_feeds(st, lg, d, 1))
    ELSE st

\* sync() entered at depth d of nested sync() calls; beyond RecursionLimit
\* Python raises RecursionError
sync_call(st, lg, d) ==
    IF st.raised # "no" THEN st
    ELSE IF d > RecursionLimit
    THEN [st EXCEPT !.raised = "RecursionError", !.nested = d]
    ELSE sync_after_next([st EXCEPT !.m = sync_gen_next(st.m, lg),
                                    !.nested = IF d > st.nested THEN d ELSE st.nested],
                         lg, d)

\* what a call leaves behind.  A RecursionError is raised in whatever frame
\* exceeds the limit; if that frame is inside next(self._sync_gen) the
\* generator ends with it, otherwise it stays suspended.
returns(st, op, arg, gen_phase) ==
    /\ gen_phase \in IF st.raised = "RecursionError"
                     THEN {st.m.phase, "finished"} ELSE {st.m.phase}
    /\ units' = st.m.units
    /\ last_sync_id' = st.m.last_sync_id
    /\ total_lifetime_units_mapped' = st.m.total
    /\ cur_txscope' = st.m.cur
    /\ mod_next_ids_per_txs' = st.m.nexts
    /\ sync_gen' = [phase |-> gen_phase, last_scan_ahead_id |-> st.m.scan]
    /\ last_notify_sync_id' = st.last_notify
    /\ all_feeds' = st.feeds
    /\ units_expired' = st.expired
    /\ delivered' = st.delivered
    /\ feed_ret' = [op |-> op, arg |-> arg, raised |-> st.raised, ext |-> st.ext,
                    dels |-> st.dels, released |-> st.released,
                    nested |-> st.nested,
                    mapped |-> st.m.total - total_lifetime_units_mapped,
                    yields |-> st.yields]
    /\ UNCHANGED <<log, sync_ret, storeVars, ioVars, contentVars, pc, committed, indexVars, lastVars>>

\* ARFMapper.sync(), lines 724-726, with feeds of either kind
sync_feeds == \E gen_phase \in {"A", "B", "C", "finished"} :
    returns(sync_call(call_state, log, 0), "sync", 0, gen_phase)

\* the owner of feed f consumes feed.iter_new_units(): lines 607-610
iter_new_units(f) == \E gen_phase \in {"A", "B", "C", "finished"} :
    returns(iter_units(call_state, log, 0, f, all_feeds[f].last_sync_id + 1),
            "iter_new_units", f, gen_phase)

\* PerishablesMapInterfaceMixin.__getitem__(k), perishables.py lines 32-39, on
\* units
units_getitem(st, lg, k) ==
    IF st.raised # "no" THEN st
    ELSE IF k \notin DOMAIN st.m.units THEN [st EXCEPT !.raised = "KeyError"]
    ELSE IF storage_contains(lg, k) THEN st
    ELSE [release([st EXCEPT !.expired = st.expired \cup {k}])
            EXCEPT !.raised = "KeyError"]

\* ARFMapper.__getitem__(k): lines 728-731
mapper_getitem(k) == \E gen_phase \in {"A", "B", "C", "finished"} :
    returns(units_getitem(IF k > last_sync_id THEN sync_call(call_state, log, 0)
                          ELSE call_state,
                          log, k),
            "getitem", k, gen_phase)

\* getfeed(recv_extend=...): lines 750-753
feed_getfeed(feed) ==
    /\ Len(all_feeds) < MaxFeeds
    /\ all_feeds' = Append(all_feeds, feed)
    /\ delivered' = Append(delivered, {})
    /\ feed_ret' = [op |-> "getfeed", arg |-> Len(all_feeds) + 1, raised |-> "no",
                    ext |-> [f \in 1..(Len(all_feeds) + 1) |-> 0], dels |-> {},
                    released |-> {}, nested |-> 0, mapped |-> 0,
                    yields |-> [f \in 1..(Len(all_feeds) + 1) |-> <<>>]]
    /\ UNCHANGED <<log, units, last_sync_id, last_notify_sync_id,
                   total_lifetime_units_mapped, cur_txscope,
                   mod_next_ids_per_txs, sync_gen, sync_ret, units_expired,
                   storeVars, ioVars, contentVars, pc, committed, indexVars, lastVars>>

\* the writer of the log that the mapper with feeds scans
feed_append(unit) == Len(log) < MaxFeedLog /\ storage_write(unit)

\* storage.discard(id), noted as the last call: it reaches no mapper and no feed
feed_discard(id) ==
    /\ storage_contains(log, id)
    /\ Cardinality({k \in 1..Len(log) : log[k].deleted}) < MaxDiscards
    /\ log' = [log EXCEPT ![id].deleted = TRUE]
    /\ feed_ret' = [op |-> "discard", arg |-> id, raised |-> "no",
                    ext |-> [f \in 1..Len(all_feeds) |-> 0], dels |-> {},
                    released |-> {}, nested |-> 0, mapped |-> 0,
                    yields |-> [f \in 1..Len(all_feeds) |-> <<>>]]
    /\ UNCHANGED <<units, last_sync_id, last_notify_sync_id,
                   total_lifetime_units_mapped, cur_txscope,
                   mod_next_ids_per_txs, sync_gen, all_feeds, sync_ret,
                   units_expired, delivered, storeVars, ioVars, contentVars, pc,
                   committed, indexVars, lastVars>>

FeedInit ==
    /\ units_expired = {}
    /\ delivered = <<>>
    /\ feed_ret = [op |-> "init", arg |-> 0, raised |-> "no", ext |-> <<>>,
                   dels |-> {}, released |-> {}, nested |-> 0, mapped |-> 0,
                   yields |-> <<>>]

FeedNext ==
    \/ \E unit \in FeedUnits : feed_append(unit)
    \/ \E id \in 1..Len(log) : feed_discard(id)
    \/ \E feed \in {Feed, ConsumingFeed} : feed_getfeed(feed)
    \/ sync_feeds
    \/ \E f \in 1..Len(all_feeds) : iter_new_units(f)
    \/ \E k \in 1..Len(log) : mapper_getitem(k)

(***************************************************************************)
(* Perishable containers -- src/containers/perishables.py                   *)
(***************************************************************************)

\* the keys of the underlying container
keys(p) == {p.data[j] : j \in 1..Len(p.data)}

\* a call begins: nothing returned, raised, skipped or removed yet
called(p, op, arg) ==
    [p EXCEPT !.ret = [op |-> op, arg |-> arg, out |-> None, truth |-> FALSE,
                       raised |-> "no", skipped |-> {}, removed |-> {},
                       present |-> arg \in keys(p)]]

TestValidAlways(p, k) == TRUE

\* self.test_valid(k): for ARFMapper.units, k in storage (arf.py line 667)
test_valid(p, k) == k \notin p.discarded

ReleaseDeferredNever(iters_open) == FALSE

\* try_release_expired, line 55: the gate
ReleaseDeferred(iters_open) == iters_open # 0

\* try_release_expired, lines 54-60, with _release_action, lines 80-88
try_release_expired(p) ==
    IF ReleaseDeferred(p.iters_open) THEN p
    ELSE [p EXCEPT !.data = SelectSeq(p.data, LAMBDA k : k \notin p.expired),
                   !.expired = {},
                   !.ret.removed = p.ret.removed \cup (p.expired \cap keys(p))]

ObserveExpiredNoRecord(p, k) == p

\* lines 18-19 and 37-38: the key is recorded as expired and released if no
\* iterator is open
observe_expired(p, k) ==
    try_release_expired([p EXCEPT !.expired = p.expired \cup {k}])

\* __contains__, lines 13-20
contains(p, k) ==
    IF k \in keys(p)
    THEN IF test_valid(p, k) THEN [p EXCEPT !.ret.truth = TRUE]
         ELSE observe_expired(p, k)
    ELSE p

\* __getitem__, lines 32-39, for a key that is no slice
getitem(p, k) ==
    IF k \notin keys(p) THEN [p EXCEPT !.ret.raised = "KeyError"]
    ELSE IF test_valid(p, k) THEN [p EXCEPT !.ret.out = k]
    ELSE [observe_expired(p, k) EXCEPT !.ret.raised = "KeyError"]

IterCloseNoRelease(p, itr) ==
    [p EXCEPT !.iters_open = p.iters_open - 1,
              !.its = p.its (-) SetToBag({itr})]

\* _iter_context leaves its with block, lines 66-69; the iterator is gone
iter_close(p, itr) ==
    try_release_expired([p EXCEPT !.iters_open = p.iters_open - 1,
                                  !.its = p.its (-) SetToBag({itr})])

\* _iter_context is entered at the first next() of the generator, lines 63-65
iter_enter(p, itr) ==
    IF itr.state = "created"
    THEN [p EXCEPT !.iters_open = p.iters_open + 1,
                   !.its = (p.its (-) SetToBag({itr}))
                            (+) SetToBag({[itr EXCEPT !.state = "open"]})]
    ELSE p

\* the keys at the positions from..to of the underlying container
keys_at(p, from, to) == {p.data[j] : j \in from..to}

\* one next() of _iter_wrapper, lines 71-77, entered, on the open iterator itr:
\* the underlying dict iterator raises RuntimeError if the dict changed size
\* since iter(); the invalid keys met go to expired; the first valid key is
\* yielded; at the end of the keys the with block is left.  valid: the
\* positions after itr.pos of the valid keys
iter_step(p, itr, valid) ==
    IF Len(p.data) # itr.used
    THEN [iter_close(p, itr) EXCEPT !.ret.raised = "RuntimeError"]
    ELSE IF valid = {}
    THEN [iter_close(
            [p EXCEPT !.expired = p.expired \cup keys_at(p, itr.pos + 1, Len(p.data)),
                      !.ret.skipped = keys_at(p, itr.pos + 1, Len(p.data))], itr)
          EXCEPT !.ret.raised = "StopIteration"]
    ELSE [p EXCEPT !.expired = p.expired \cup keys_at(p, itr.pos + 1, Min(valid) - 1),
                   !.ret.skipped = keys_at(p, itr.pos + 1, Min(valid) - 1),
                   !.ret.out = p.data[Min(valid)],
                   !.its = (p.its (-) SetToBag({itr}))
                            (+) SetToBag({[itr EXCEPT !.pos = Min(valid)]})]

\* next(it)
iter_next(p, itr) ==
    iter_step(iter_enter(p, itr), [itr EXCEPT !.state = "open"],
              {j \in (itr.pos + 1)..Len(p.data) : test_valid(p, p.data[j])})

\* __len__, lines 22-24: an iteration of its own, from iter() to the end
len(p) ==
    [try_release_expired(
        [p EXCEPT !.expired = p.expired \cup {k \in keys(p) : ~test_valid(p, k)},
                  !.ret.skipped = {k \in keys(p) : ~test_valid(p, k)}])
     EXCEPT !.ret.out = Cardinality({k \in keys(p) : test_valid(p, k)})]

\* a call on the container ends
pc_call(p) ==
    /\ pc' = p
    /\ UNCHANGED <<storeVars, ioVars, mapperVars, contentVars, feedVars, committed, indexVars, lastVars>>

\* the underlying container's insertion of a new key; the keys are store ids
\* and arrive in the order they were issued (last_add: the last one inserted)
pc_insert(k) ==
    /\ k = pc.last_add + 1
    /\ pc_call([called(pc, "insert", k) EXCEPT !.data = Append(pc.data, k),
                                               !.last_add = k])

\* storage.discard(k) of an inserted key: test_valid(k) is false from now on
pc_discard(k) ==
    /\ k <= pc.last_add
    /\ k \notin pc.discarded
    /\ pc_call([called(pc, "discard", k) EXCEPT !.discarded = pc.discarded \cup {k}])

\* iter(container), line 11: the underlying iterator is made, the generator is
\* not started; at most MaxIters iterators exist at a time, and iterators in the
\* same state are not told apart
pc_iter ==
    /\ BagCardinality(pc.its) < MaxIters
    /\ pc_call([called(pc, "iter", 0) EXCEPT
                  !.its = pc.its (+) SetToBag({[state |-> "created",
                                                used |-> Len(pc.data), pos |-> 0]})])

pc_next(itr) == pc_call(iter_next(called(pc, "next", 0), itr))

\* the generator is closed or collected before its end
pc_close(itr) ==
    pc_call(IF itr.state = "open" THEN iter_close(called(pc, "close", 0), itr)
            ELSE [called(pc, "close", 0) EXCEPT !.its = pc.its (-) SetToBag({itr})])

\* k in container, for a key that was inserted once
pc_contains(k) ==
    k <= pc.last_add /\ pc_call(contains(called(pc, "contains", k), k))

\* container[k], for a key that was inserted once
pc_getitem(k) ==
    k <= pc.last_add /\ pc_call(getitem(called(pc, "getitem", k), k))

pc_len == pc_call(len(called(pc, "len", 0)))

pc_try_release_expired == pc_call(try_release_expired(called(pc, "try_release_expired", 0)))

PerishInit ==
    pc = [data |-> <<>>, last_add |-> 0, discarded |-> {}, expired |-> {}, iters_open |-> 0,
          its |-> EmptyBag,
          ret |-> [op |-> "init", arg |-> 0, out |-> None, truth |-> FALSE,
                   raised |-> "no", skipped |-> {}, removed |-> {},
                   present |-> FALSE]]

PerishNext ==
    \/ \E k \in 1..MaxKeys : pc_insert(k) \/ pc_discard(k) \/ pc_contains(k) \/ pc_getitem(k)
    \/ pc_iter
    \/ \E itr \in BagToSet(pc.its) : pc_next(itr) \/ pc_close(itr)
    \/ pc_len
    \/ pc_try_release_expired

(***************************************************************************)
(* Content.merge_in and the occlusion tests -- src/arf.py, lines 1045-1073  *)
(* and 1132-1187.  A subject stands with the context Content.__iter__ gives *)
(* it: its strand, its discard_strands, and the modifiers it binds.         *)
(***************************************************************************)

\* the contexts a subject with store id id of the transaction tx can have:
\* a StrandCreate with its strand and its strd-size-bytes, a
\* StrandWriteDataBlock with its strand and offset, a StrandDiscard with its
\* discard_strands; the first two bind one of the transaction's two
\* StrandSelects (0, 1), the last its StrandGroupSelect (2)
SubjectContexts(id, tx) ==
    [store_id : {id}, typeid : {StrandCreate}, strand : {1, 2}, offset : {0},
     size : {0, 1}, discard_strands : {{}}, mod : {tx} \X {0, 1}]
    \cup [store_id : {id}, typeid : {StrandWriteDataBlock}, strand : {1, 2},
          offset : {0, 1}, size : {0}, discard_strands : {{}}, mod : {tx} \X {0, 1}]
    \cup [store_id : {id}, typeid : {StrandDiscard}, strand : {None}, offset : {0},
          size : {0}, discard_strands : {{1}, {1, 2}}, mod : {tx} \X {2}]

\* occlusion_tests[type(rear), type(fore)](rear, fore): lines 1035-1043 over
\* the tests registered in lines 1050-1071
occlusion_test(rear, fore) ==
    \/ rear.typeid = StrandDiscard
    \/ /\ rear.typeid \in {StrandCreate, StrandWriteDataBlock}
       /\ fore.typeid = StrandDiscard
       /\ rear.strand \in fore.discard_strands
    \/ /\ rear.typeid = StrandWriteDataBlock /\ fore.typeid = StrandWriteDataBlock
       /\ rear.offset = fore.offset /\ rear.strand = fore.strand
    \/ /\ rear.typeid = StrandCreate /\ fore.typeid = StrandCreate
       /\ rear.strand = fore.strand
    \/ /\ rear.typeid = StrandWriteDataBlock /\ fore.typeid = StrandCreate
       /\ rear.strand = fore.strand /\ rear.offset <= fore.size

\* _calc_occlusions_single, lines 1155-1163: the subjects of subjs in content
\* order up to fore_subj itself, if it is among them, that the test gives
\* as written: line 1150 passes a second argument that the function does not take.
calc_occlusions_single(subjs, fore_subj) ==
    {rear.store_id : rear \in
        {r \in subjs : /\ (\E x \in subjs : x.store_id = fore_subj.store_id)
                            => r.store_id < fore_subj.store_id
                       /\ occlusion_test(r, fore_subj)}}

\* calc_occlusions(fore), fore a Content: lines 1148-1153
calc_occlusions(subjs, fore) ==
    UNION {calc_occlusions_single(subjs, fore_subj) : fore_subj \in fore}

\* Content(unit_infos) of the next transaction: up to MaxOther subjects with the
\* next store ids; __init__ refuses conflicting subjects, lines 1091-1092
Contents(last_id, tx) ==
    {other \in UNION {
        {{s1} : s1 \in SubjectContexts(last_id + 1, tx)},
        IF MaxOther >= 2 /\ last_id + 2 <= MaxSubjects
        THEN {{s1, s2} : <<s1, s2>> \in SubjectContexts(last_id + 1, tx)
                                          \X SubjectContexts(last_id + 2, tx)}
        ELSE {},
        IF MaxOther >= 3 /\ last_id + 3 <= MaxSubjects
        THEN {{s1, s2, s3} : <<s1, s2, s3>> \in SubjectContexts(last_id + 1, tx)
                \X SubjectContexts(last_id + 2, tx) \X SubjectContexts(last_id + 3, tx)}
        ELSE {}} :
     calc_occlusions(other, other) = {}}

SubjectsToRemoveNone(subjs, other) == {}

\* subj.mods.values(), lines 985-997: the modifiers a subject binds; a subject
\* that stands with a given context binds the one modifier it names
mods_of(s) == IF "mods" \in DOMAIN s THEN s.mods ELSE {s.mod}

\* merge_in, line 1177
subjects_to_remove(subjs, other) == calc_occlusions(subjs, other)

\* calc_unused_mods, lines 1165-1171, over the subjects left: remove() of a
\* modifier that an earlier subject bound as well raises KeyError
\* as written: line 1182 calls calc_unused_mods without self.
unused_mods_raises(left) ==
    \E s1, s2 \in left : s1.store_id # s2.store_id /\ mods_of(s1) \cap mods_of(s2) # {}

unused_mods(mods, left) == mods \ UNION {mods_of(s) : s \in left}

\* merge_in, lines 1178-1183: the modifiers index once the unused modifiers of
\* the subjects left are discarded from storage
kept_mods(c, other, left) ==
    IF subjects_to_remove(c.subjects, other) # {}
    THEN c.modifiers \ unused_mods(c.modifiers, left)
    ELSE c.modifiers

\* ARFMapperIndex._add_unit, lines 825-827, on the modifiers index, which is
\* unique: assert k not in map_
add_unit_asserts(mods, k) == k \in mods

\* merge_in(other), lines 1173-1187: the occluded subjects are discarded from
\* storage and leave the Content, then the unused modifiers, then other's
\* subjects are added and after them other's modifiers (other_mods).  In this
\* model the modifiers of other are all new or all present, so a failed assert
\* is the one of the first modifier.
merge_in(c, other, other_mods, left) ==
    IF subjects_to_remove(c.subjects, other) # {} /\ unused_mods_raises(left)
    THEN [c EXCEPT !.subjects = left,
                   !.ret = [op |-> "merge_in", raised |-> "KeyError", other |-> other,
                            removed |-> subjects_to_remove(c.subjects, other),
                            unused |-> {}]]
    ELSE IF \E k \in other_mods : add_unit_asserts(kept_mods(c, other, left), k)
    THEN [c EXCEPT !.subjects = left \cup other,
                   !.modifiers = kept_mods(c, other, left),
                   !.ret = [op |-> "merge_in", raised |-> "AssertionError",
                            other |-> other,
                            removed |-> subjects_to_remove(c.subjects, other),
                            unused |-> c.modifiers \ kept_mods(c, other, left)]]
    ELSE [c EXCEPT !.subjects = left \cup other,
                   !.modifiers = kept_mods(c, other, left) \cup other_mods,
                   !.ret = [op |-> "merge_in", raised |-> "no", other |-> other,
                            removed |-> subjects_to_remove(c.subjects, other),
                            unused |-> c.modifiers \ kept_mods(c, other, left)]]

\* the subjects of a Content that merge_in(other) leaves in it
left_by(subjs, other) ==
    {s \in subjs : s.store_id \notin subjects_to_remove(subjs, other)}

\* a transaction of up to MaxOther subjects is committed:
\* self.committed.merge_in(Content(tx_uis)), line 1213
export_commit(other) ==
    /\ committed' =
         [merge_in(committed, other, {s.mod : s \in other},
                   left_by(committed.subjects, other))
          EXCEPT !.ctr = committed.ctr + Cardinality(other),
                 !.txs = committed.txs + 1]
    /\ UNCHANGED <<storeVars, ioVars, mapperVars, contentVars, feedVars, pc, indexVars, lastVars>>

\* merge_in(other) where other is a Content of units that self holds already:
\* the Content that was merged last is merged once more
merge_in_again(other) ==
    /\ committed' =
         [merge_in(committed, other, {s.mod : s \in other},
                   left_by(committed.subjects, other))
          EXCEPT !.ret.op = "merge_in_again"]
    /\ UNCHANGED <<storeVars, ioVars, mapperVars, contentVars, feedVars, pc, indexVars, lastVars>>

\* calc_unused_mods(), lines 1165-1171, called on the committed Content
calc_unused_mods ==
    /\ committed' =
         [committed EXCEPT !.ret =
            [op |-> "calc_unused_mods",
             raised |-> IF unused_mods_raises(committed.subjects)
                        THEN "KeyError" ELSE "no",
             other |-> {}, removed |-> {},
             unused |-> IF unused_mods_raises(committed.subjects) THEN {}
                        ELSE unused_mods(committed.modifiers, committed.subjects)]]
    /\ UNCHANGED <<storeVars, ioVars, mapperVars, contentVars, feedVars, pc, indexVars, lastVars>>

MergeInit ==
    committed = [subjects |-> {}, modifiers |-> {}, ctr |-> 0, txs |-> 0,
                 ret |-> [op |-> "none", raised |-> "none", other |-> {},
                          removed |-> {}, unused |-> {}]]

MergeNext ==
    \/ /\ committed.ctr < MaxSubjects
       /\ \E other \in Contents(committed.ctr, committed.txs) : export_commit(other)
    \/ /\ committed.ret.op = "merge_in" /\ committed.ret.raised = "no"
       /\ merge_in_again(committed.ret.other)
    \/ calc_unused_mods

----------------------------------------------------------------------------
(* ARFMapperIndex -- src/arf.py, lines 770-900, over the perishable          *)
(* containers of src/containers/perishables.py.  The index is keyed by txs   *)
(* and type and is not unique, as Content.subjects and OpenTXsIndex are.     *)

\* the subject types and the unit infos the mapper gives to the index
IndexTypes == {StrandWriteDataBlock, StrandCreate}

IndexUnits == [store_id : 1..MaxIndexIds, txs : TxsIds, typeid : IndexTypes]

Range(s) == {s[i] : i \in 1..Len(s)}

\* mapkey_for, lines 813-819: the leaf set of a unit is maps[txs][type]
mapkey_for(ui) == <<ui.txs, ui.typeid>>

\* map_[k] of an AutoContainerMap, perishables.py lines 102-110: a missing leaf
\* is made, and a new OrderedSet has no last_add (getattr gives -1, line 829)
leaf_of(ix, k) ==
    IF k \in DOMAIN ix.maps THEN ix.maps[k] ELSE [data |-> <<>>, last_add |-> 0 - 1]

\* OrderedSet.add, perishables.py lines 154-156: a dict keeps the place of a
\* key that it holds already
OrderedSet_add(leaf, k) ==
    [data |-> IF k \in Range(leaf.data) THEN leaf.data ELSE Append(leaf.data, k),
     last_add |-> k]

WellSortedKept(ws, store_id, last_add) == ws

\* _add_unit, lines 829-830
well_sorted_after(ws, store_id, last_add) == ws /\ ~(store_id < last_add)

\* _add_unit, lines 821-831, not unique
add_unit(ix, ui) ==
    [ix EXCEPT
        !.maps = [k \in (DOMAIN ix.maps) \cup {mapkey_for(ui)} |->
                    IF k = mapkey_for(ui)
                    THEN OrderedSet_add(leaf_of(ix, k), ui.store_id)
                    ELSE ix.maps[k]],
        !.well_sorted = well_sorted_after(ix.well_sorted, ui.store_id,
                                          leaf_of(ix, mapkey_for(ui)).last_add)]

\* PerishablesSet.__iter__, perishables.py lines 70-77 with mapper
\* ._unit_valid_test, line 667: the ids of a leaf that are in storage
valid_ids(data, dead) == SelectSeq(data, LAMBDA k : k \notin dead)

\* a constraint of iter_with_constraints, lines 851-861: None or one value
matches(k, cons) ==
    /\ cons.txs = None \/ k[1] = cons.txs
    /\ cons.typeid = None \/ k[2] = cons.typeid

\* search_gen, lines 850-868: the leaf sets under the keys that match; an
\* AutoContainerMap gives no leaf without a valid id, perishables.py 119-133
search_gen(ix, dead, cons) ==
    {valid_ids(ix.maps[k].data, dead) : k \in {x \in DOMAIN ix.maps : matches(x, cons)}}
        \ {<<>>}

least_head(seqs) == CHOOSE s \in seqs : \A t \in seqs : Head(s) <= Head(t)

RECURSIVE heapq_merge(_)
\* heapq.merge(*results), line 875: the least of the heads comes next
heapq_merge(seqs) ==
    IF seqs \ {<<>>} = {} THEN <<>>
    ELSE <<Head(least_head(seqs \ {<<>>}))>>
         \o heapq_merge(((seqs \ {<<>>}) \ {least_head(seqs \ {<<>>})})
                        \cup {Tail(least_head(seqs \ {<<>>}))})

\* iter_with_constraints, lines 847-877, consumed to its end
iter_with_constraints(ix, dead, cons) ==
    IF ix.well_sorted
    THEN heapq_merge(search_gen(ix, dead, cons))
    ELSE SortedSeq(UNION {Range(s) : s \in search_gen(ix, dead, cons)})

\* the leaves once the iterators are closed: the ids found invalid are released
\* from their leaf, and a leaf left without ids from the map,
\* perishables.py lines 52-68 and 79-89
released_maps(ix, dead, cons) ==
    [k \in {x \in DOMAIN ix.maps : matches(x, cons)
                                     => valid_ids(ix.maps[x].data, dead) # <<>>} |->
        IF matches(k, cons)
        THEN [ix.maps[k] EXCEPT !.data = valid_ids(ix.maps[k].data, dead)]
        ELSE ix.maps[k]]

\* index.maybe_add_unit(ui), lines 808-811, for a unit that is in storage; a
\* store id stands for one unit, so it comes with one key
index_add(ui) ==
    /\ ui.store_id \notin index.dead
    /\ \A k \in DOMAIN index.maps :
            ui.store_id \in Range(index.maps[k].data) => k = mapkey_for(ui)
    /\ index' = [add_unit(index, ui) EXCEPT
                    !.ret = [op |-> "add", cons |-> [txs |-> None, typeid |-> None],
                             out |-> <<>>, stream |-> <<>>, raised |-> "none"]]
    /\ UNCHANGED <<storeVars, ioVars, mapperVars, contentVars, feedVars, pc,
                   committed, indexer, lastVars>>

\* storage.discard(id): the unit is no longer valid
index_discard(id) ==
    /\ id \notin index.dead
    /\ index' = [index EXCEPT
                    !.dead = index.dead \cup {id},
                    !.ret = [op |-> "discard", cons |-> [txs |-> None, typeid |-> None],
                             out |-> <<>>, stream |-> <<>>, raised |-> "none"]]
    /\ UNCHANGED <<storeVars, ioVars, mapperVars, contentVars, feedVars, pc,
                   committed, indexer, lastVars>>

\* list(index.iter_with_constraints(cons)), cons being {} or {"txs": txs} as in
\* lines 1123, 1130 and 1209
index_iter(cons) ==
    /\ index' = [index EXCEPT
                    !.maps = released_maps(index, index.dead, cons),
                    !.ret = [op |-> "iter", cons |-> cons,
                             out |-> iter_with_constraints(index, index.dead, cons),
                             stream |-> <<>>, raised |-> "none"]]
    /\ UNCHANGED <<storeVars, ioVars, mapperVars, contentVars, feedVars, pc,
                   committed, indexer, lastVars>>

\* ARFMapperIndex.__init__, lines 783-806
IndexInit ==
    index = [maps |-> <<>>, well_sorted |-> TRUE, dead |-> {}, timeline |-> <<>>,
             ret |-> [op |-> "none", cons |-> [txs |-> None, typeid |-> None],
                      out |-> <<>>, stream |-> <<>>, raised |-> "none"]]

IndexNext ==
    \/ \E ui \in IndexUnits : index_add(ui)
    \/ \E id \in 1..MaxIndexIds : index_discard(id)
    \/ \E cons \in [txs : {None} \cup TxsIds, typeid : {None}] : index_iter(cons)

----------------------------------------------------------------------------
(* OpenTXsIndex and ARFIndexer -- src/arf.py, lines 1189-1236.  The mapper   *)
(* gives the indexer one UnitInfo after the other, in store id order, with   *)
(* the scope and the modifier ids that _map_unit assigns.                    *)

\* the units the mapper maps next while cur is the current scope
IndexerUnits(cur) ==
    { <<TxScopeMarker, cur, 1 - cur>>, <<StrandSelect, 1>>, <<StrandSelect, 2>>,
      <<StrandCreate, 0>>, <<TxScopeFinalize, TRUE>>, <<TxScopeFinalize, FALSE>> }

\* _map_unit(store_id, ut) for the next store id, the unit being u
mapped(x, u) ==
    map_unit([units |-> x.units, last_sync_id |-> Len(x.units),
              total |-> Len(x.units), cur |-> x.cur, nexts |-> x.nexts,
              raised |-> "no"],
             [k \in {Len(x.units) + 1} |-> [unit |-> u, deleted |-> FALSE]],
             Len(x.units) + 1, u[1])

\* the indexer once the mapper has mapped a unit: m is what _map_unit leaves
after_map(x, m) == [x EXCEPT !.units = m.units, !.cur = m.cur, !.nexts = m.nexts]

\* "k in map_" for the unique map of the globals index, perishables.py lines
\* 13-20 with UniquesMapMixin.test_valid, lines 776-779: the key is present
\* and the unit stored under it is in storage
\* as written: the instance attribute of perishables.py line 50 hides the
\* method of lines 776-779; the method is meant.
uniques_contains(g, dead, k) == k \in DOMAIN g /\ g[k] \notin dead

\* self.globals, lines 1222-1223, as written: the lambda is the third
\* positional argument, which is `unique`; selector stays None, and
\* self.selector (line 786) accepts every unit
globals_selector(ui) == TRUE

\* globals.maybe_add_unit(ui), lines 808-811, with _add_unit for a unique
\* index keyed by type, lines 825-827
globals_maybe_add_unit(x, ui) ==
    IF ~ globals_selector(ui) THEN x
    ELSE IF uniques_contains(x.globals, x.dead, ui.typeid)
    THEN [x EXCEPT !.ret.raised = "AssertionError"]
    ELSE [x EXCEPT !.globals = [k \in (DOMAIN x.globals) \cup {ui.typeid} |->
                                  IF k = ui.typeid THEN ui.store_id
                                  ELSE x.globals[k]]]

DiscardUnitNone(data, store_id) == data

\* discard_unit, lines 833-845, not unique
\* as written: line 845 calls map_.discard(k) on the map that holds the leaf;
\* map_[k].discard(store_id) is meant (OrderedSet.discard, perishables.py 158-159).
discard_unit(data, store_id) == SelectSeq(data, LAMBDA k : k # store_id)

RECURSIVE discard_units(_, _, _)
\* the loop of lines 1210-1211 over tx_uis, us being the units by store id
discard_units(maps, us, ids) ==
    IF ids = {} THEN maps
    ELSE discard_units(
            [maps EXCEPT ![mapkey_for(us[Min(ids)])].data = discard_unit(@, Min(ids))],
            us, ids \ {Min(ids)})

\* tx_uis, line 1209: list(Query(self, {"txs": txs}))
tx_uis(x, txs) ==
    Range(iter_with_constraints(x.open_transactions, x.dead,
                                [txs |-> txs, typeid |-> None]))

\* the units of tx_uis as the mapper of the new Content sees them
units_of(x, ids) == [k \in ids |-> x.units[k]]

\* Content._context_for(subj) within Content(tx_uis), lines 1115-1119
context_in(us, k) == SubjectWithContext(us, us[k], Query(us, mod_index_ks(us[k])))

\* a subject with the context it has got, as the occlusion tests read it
subject_of(us, c) ==
    [store_id |-> c.subj, typeid |-> us[c.subj].typeid, strand |-> c.strand,
     offset |-> IF us[c.subj].typeid = StrandWriteDataBlock
                THEN us[c.subj].cached_pcs[1] ELSE 0,
     size |-> IF us[c.subj].typeid = StrandCreate
              THEN us[c.subj].cached_pcs[1] ELSE 0,
     discard_strands |-> {},
     mods |-> {c.mods[i] : i \in 1..Len(txmods)} \ {None}]

subjects_in(us) == {k \in DOMAIN us : is_TXSubject(us[k].typeid)}

ContentConflictNever(us, k) == FALSE

\* _calc_occlusions_single within Content.__init__, lines 1091-1092 and
\* 1155-1163: a subject before k in content order that k occludes
content_conflict(us, k) ==
    \E r \in subjects_in(us) :
        /\ r < k
        /\ occlusion_test(subject_of(us, context_in(us, r)),
                          subject_of(us, context_in(us, k)))

\* the subjects at which Content.__init__ stops: the context fails, or a
\* subject before it is occluded by it
content_bad(us) ==
    {k \in subjects_in(us) : context_in(us, k).raised # "no" \/ content_conflict(us, k)}

\* Content(unit_infos), lines 1078-1092: what it raises
\* as written: unique_keys_on, lines 882-886, raises from the else of its for
\* loop whether or not the keydef was found; the loop is meant to break.
Content(us) ==
    IF content_bad(us) = {} THEN "no"
    ELSE IF context_in(us, Min(content_bad(us))).raised # "no"
    THEN context_in(us, Min(content_bad(us))).raised
    ELSE "ValueError"

ExportsAlways(ui) == TRUE

\* line 1212: the transaction is exported when the finalize is a commit
\* as written: the key is "is_commit"; the piece is named "is-commit".
exports(ui) == ui.cached_pcs[1]

\* OpenTXsIndex.maybe_add_unit, lines 1201-1206: _add_unit and the entry of
\* active_scopes
\* as written: line 1206 tests ut; unit_info["type"] is meant.
open_add(x, ui) ==
    [x EXCEPT !.open_transactions = add_unit(x.open_transactions, ui),
              !.active_scopes = x.active_scopes \cup {ui.txs}]

\* OpenTXsIndex.maybe_add_unit, lines 1208-1211, x having the unit added:
\* the scope is closed and the units of the transaction leave the index
open_finalize(x, ui) ==
    [x EXCEPT !.active_scopes = x.active_scopes \ {ui.txs},
              !.open_transactions.maps =
                    discard_units(released_maps(x.open_transactions, x.dead,
                                                [txs |-> ui.txs, typeid |-> None]),
                                  x.units, tx_uis(x, ui.txs)),
              !.ret.tx_uis = tx_uis(x, ui.txs)]

\* the Content that is exported: its subjects and its modifiers
other_subjects(us) == {subject_of(us, context_in(us, k)) : k \in subjects_in(us)}

other_modifiers(us) == {k \in DOMAIN us : is_TXModifier(us[k].typeid)}

\* what the finalize of lines 1207-1213 leaves of the committed Content
committed_after(c, x, ui) ==
    IF ~ is_TXUnit(ui.typeid) \/ ui.typeid # TxScopeFinalize \/ ~ exports(ui)
       \/ x.ret.raised # "no"
       \/ Content(units_of(x, tx_uis(open_add(x, ui), ui.txs))) # "no"
    THEN c
    ELSE merge_in(c, other_subjects(units_of(x, tx_uis(open_add(x, ui), ui.txs))),
                  other_modifiers(units_of(x, tx_uis(open_add(x, ui), ui.txs))),
                  left_by(c.subjects,
                          other_subjects(units_of(x, tx_uis(open_add(x, ui), ui.txs)))))

\* OpenTXsIndex.maybe_add_unit(unit_info), lines 1197-1213; c1 is the
\* committed Content after it
open_maybe_add_unit(x, ui, c, c1) ==
    IF x.ret.raised # "no" \/ ~ is_TXUnit(ui.typeid) THEN x
    ELSE IF ui.typeid # TxScopeFinalize THEN open_add(x, ui)
    ELSE IF ~ exports(ui) THEN open_finalize(open_add(x, ui), ui)
    ELSE IF Content(units_of(x, tx_uis(open_add(x, ui), ui.txs))) # "no"
    THEN [open_finalize(open_add(x, ui), ui) EXCEPT
            !.ret.raised = Content(units_of(x, tx_uis(open_add(x, ui), ui.txs)))]
    ELSE [open_finalize(open_add(x, ui), ui) EXCEPT
            !.ret.raised = IF c1.ret.raised = "no" THEN "no" ELSE c1.ret.raised,
            !.ret.exported = TRUE,
            !.dead = x.dead \cup c1.ret.removed \cup c1.ret.unused]

\* the call starts: the mapper has mapped the unit, the last call is op
called_with(x, m, op) ==
    [after_map(x, m) EXCEPT
        !.ret = [op |-> op, arg |-> Len(m.units), raised |-> "no",
                 exported |-> FALSE, tx_uis |-> {}]]

\* open_transactions.maybe_add_unit(ui) for the unit the mapper maps next
open_transactions_maybe_add_unit(u) ==
    /\ Len(indexer.units) < MaxIndexerUnits
    /\ committed' =
         committed_after(committed,
                         called_with(indexer, mapped(indexer, u), "maybe_add_unit"),
                         mapped(indexer, u).units[Len(indexer.units) + 1])
    /\ indexer' =
         open_maybe_add_unit(
            called_with(indexer, mapped(indexer, u), "maybe_add_unit"),
            mapped(indexer, u).units[Len(indexer.units) + 1], committed, committed')
    /\ UNCHANGED <<storeVars, ioVars, mapperVars, contentVars, feedVars, pc, index, lastVars>>

\* ARFIndexer._add_unit(ui), lines 1235-1237, for the unit the mapper maps next
indexer_add_unit(u) ==
    /\ Len(indexer.units) < MaxIndexerUnits
    /\ committed' =
         committed_after(committed,
                         globals_maybe_add_unit(
                            called_with(indexer, mapped(indexer, u), "_add_unit"),
                            mapped(indexer, u).units[Len(indexer.units) + 1]),
                         mapped(indexer, u).units[Len(indexer.units) + 1])
    /\ indexer' =
         open_maybe_add_unit(
            globals_maybe_add_unit(
                called_with(indexer, mapped(indexer, u), "_add_unit"),
                mapped(indexer, u).units[Len(indexer.units) + 1]),
            mapped(indexer, u).units[Len(indexer.units) + 1], committed, committed')
    /\ UNCHANGED <<storeVars, ioVars, mapperVars, contentVars, feedVars, pc, index, lastVars>>

\* ARFIndexer.__init__, lines 1220-1229, and OpenTXsIndex.__init__, lines
\* 1190-1193, over a mapper whose skim has found scope 0
\* as written: line 1191 names the KeyDef class K, which Content._make_indexes
\* binds locally.
IndexerInit ==
    indexer = [units |-> <<>>, cur |-> 0, nexts |-> <<>>, dead |-> {},
               globals |-> <<>>,
               open_transactions |-> [maps |-> <<>>, well_sorted |-> TRUE],
               active_scopes |-> {},
               ret |-> [op |-> "none", arg |-> 0, raised |-> "none",
                        exported |-> FALSE, tx_uis |-> {}]]

OpenTXsNext == \E u \in IndexerUnits(indexer.cur) : open_transactions_maybe_add_unit(u)

IndexerNext == \E u \in IndexerUnits(indexer.cur) : indexer_add_unit(u)

----------------------------------------------------------------------------
(* Content.__iter__ and iter_stream_order -- src/arf.py, lines 1121-1130.    *)
(* The Content holds the subjects of committed transactions of two scopes;   *)
(* the timeline has the subjects and the finalizes by store id.              *)

\* mod_nexts[txmods.index(typeid)] when the unit k is mapped, _map_unit lines
\* 670-687: one more for each earlier modifier of that type and for each
\* earlier finalize of its scope
mod_nexts_at(tl, k, typeid) ==
    Cardinality({j \in 1..(k - 1) :
                    tl[j].txs = tl[k].txs /\ tl[j].typeid \in {typeid, TxScopeFinalize}})

\* _context_for, lines 1115-1119, and SubjectWithContext.__init__, lines
\* 976-992: the modifier of the type whose mod_id is the subject's subj[type];
\* None when the modifiers index has none
bound(tl, k, typeid) ==
    IF \E j \in 1..Len(tl) :
            /\ tl[j].typeid = typeid /\ tl[j].txs = tl[k].txs
            /\ mod_nexts_at(tl, j, typeid) = mod_nexts_at(tl, k, typeid)
    THEN CHOOSE j \in 1..Len(tl) :
            /\ tl[j].typeid = typeid /\ tl[j].txs = tl[k].txs
            /\ mod_nexts_at(tl, j, typeid) = mod_nexts_at(tl, k, typeid)
    ELSE None

\* self.mods[TxScopeFinalize] of the subject k
fin_of(tl, k) == bound(tl, k, TxScopeFinalize)

\* SubjectWithContext.__init__, lines 1005-1006: self.mods[StrandSelect] of a
\* StrandCreate raises KeyError when no StrandSelect is bound
\* as written: line 1005 reads ut, which is not defined; subj.unit_type is meant.
context_raises(tl, k) == bound(tl, k, StrandSelect) = None

ContentOrderById(tl, k) == k

\* SubjectWithContext.content_order, line 1003: the pair (finalize store id,
\* subject store id), as the number that orders as the pair does
content_order(tl, k) == fin_of(tl, k) * (MaxContentUnits + 2) + k

RECURSIVE add_units(_, _, _)
\* merge_in, lines 1185-1187: the subjects of other are added in id order
add_units(ix, tl, ids) ==
    IF ids = {} THEN ix
    ELSE add_units(add_unit(ix, [store_id |-> Min(ids), txs |-> tl[Min(ids)].txs,
                                 typeid |-> tl[Min(ids)].typeid]),
                   tl, ids \ {Min(ids)})

\* the subjects of the transaction that the finalize at the end of tl closes
closed_by_last(tl) ==
    {k \in 1..(Len(tl) - 1) : tl[k].typeid = StrandCreate /\ fin_of(tl, k) = Len(tl)}

\* a unit of a transaction is mapped; a TxScopeFinalize commits its
\* transaction, whose subjects come into the Content
content_unit(u) ==
    /\ Len(index.timeline) < MaxContentUnits
    /\ index' =
         [(IF u.typeid = TxScopeFinalize
           THEN add_units(index, Append(index.timeline, u),
                          closed_by_last(Append(index.timeline, u)))
           ELSE index)
          EXCEPT !.timeline = Append(index.timeline, u),
                 !.ret = [op |-> "unit", cons |-> [txs |-> None, typeid |-> None],
                          out |-> <<>>, stream |-> <<>>, raised |-> "none"]]
    /\ UNCHANGED <<storeVars, ioVars, mapperVars, contentVars, feedVars, pc,
                   committed, indexer, lastVars>>

\* txs_gen(txs), lines 1123-1125: the subjects of one scope by store id, each
\* with its content_order
txs_gen(ix, dead, tl, txs) ==
    [i \in 1..Len(iter_with_constraints(ix, dead, [txs |-> txs, typeid |-> None])) |->
        content_order(tl, iter_with_constraints(ix, dead,
                                                [txs |-> txs, typeid |-> None])[i])]

\* Content.__iter__, lines 1121-1127, consumed: the subjects by store id
\* as written: line 1127 passes the key function as one more iterable;
\* key=lambda subj: subj.content_order is meant.
content_iter(ix, dead, tl) ==
    [i \in 1..Len(heapq_merge({txs_gen(ix, dead, tl, k[1]) : k \in DOMAIN ix.maps})) |->
        heapq_merge({txs_gen(ix, dead, tl, k[1]) : k \in DOMAIN ix.maps})[i]
            % (MaxContentUnits + 2)]

\* list(iter(content)) and list(content.iter_stream_order()): each subject
\* is yielded as _context_for(ui)
content_iterate ==
    /\ index' = [index EXCEPT
                    !.maps = released_maps(index, index.dead,
                                           [txs |-> None, typeid |-> None]),
                    !.ret =
                      IF \E k \in Range(iter_with_constraints(
                                          index, index.dead,
                                          [txs |-> None, typeid |-> None])) :
                            context_raises(index.timeline, k)
                      THEN [op |-> "content_iter",
                            cons |-> [txs |-> None, typeid |-> None],
                            out |-> <<>>, stream |-> <<>>, raised |-> "KeyError"]
                      ELSE [op |-> "content_iter",
                            cons |-> [txs |-> None, typeid |-> None],
                            out |-> content_iter(index, index.dead, index.timeline),
                            stream |-> iter_with_constraints(
                                           index, index.dead,
                                           [txs |-> None, typeid |-> None]),
                            raised |-> "no"]]
    /\ UNCHANGED <<storeVars, ioVars, mapperVars, contentVars, feedVars, pc,
                   committed, indexer, lastVars>>

ContentIterNext ==
    \/ \E u \in [typeid : {StrandSelect, StrandCreate, TxScopeFinalize}, txs : TxsIds] :
            content_unit(u)
    \/ \E id \in 1..Len(index.timeline) :
            index.timeline[id].typeid = StrandCreate /\ index_discard(id)
    \/ content_iterate

----------------------------------------------------------------------------
(* TransactionComposer -- src/arf.py, lines 1240-1276 *)

\* the values of a TxScopeID
TxScopeIDs == 0..(2^TxScopeBits - 1)

ValidateNeverRaises(v) == FALSE

\* UInt.validate, lines 56-58, for TxScopeID: TypeError when the value does
\* not fit the bit length
TxScopeID_validate_raises(v) == v < 0 \/ v >= 2^TxScopeBits

TxsUnusedAlways(txs, txscopes, made) == TRUE

\* make_txs, line 1268: the test that ends the loop
txs_unused(txs, txscopes, made) == txs \notin txscopes /\ txs \notin made

\* make_txs, lines 1260-1270, when random.getrandbits gives r in the round
\* that ends the loop; the composer with the last call in ret
make_txs_returns(c, txscopes, r) ==
    IF TxScopeID_validate_raises((Cardinality(txscopes) + Cardinality(c.made)) * 2)
    THEN [c EXCEPT !.ret = [op |-> "make_txs", txs |-> None,
                            raised |-> "RuntimeError",
                            active |-> txscopes, made |-> c.made]]
    ELSE [c EXCEPT !.made = c.made \cup {r},
                   !.ret = [op |-> "make_txs", txs |-> r, raised |-> "no",
                            active |-> txscopes, made |-> c.made]]

\* the sets of scopes that open_transactions.active_scopes holds at a call
ActiveScopes == {a..b : a \in {0, 1}, b \in {0 - 1} \cup TxScopeIDs}

\* composer.make_txs() with the indexer's active_scopes being txscopes
make_txs(txscopes) ==
    /\ Cardinality(composer.made) < MaxIssued
    /\ \E r \in TxScopeIDs :
        /\ TxScopeID_validate_raises((Cardinality(txscopes) + Cardinality(composer.made)) * 2)
             \/ txs_unused(r, txscopes, composer.made)
        /\ composer' = make_txs_returns(composer, txscopes, r)
    /\ UNCHANGED <<storeVars, ioVars, mapperVars, contentVars, feedVars, pc,
                   committed, indexVars, tree, uniques>>

\* ARFMapper.__init__, lines 646-664: the transient mapper
new_mapper ==
    [units |-> <<>>, last_sync_id |-> 0 - 1, total |-> 0, cur |-> None,
     nexts |-> <<>>, phase |-> "A", scan |-> 0 - 1, raised |-> "no",
     reads |-> <<>>]

\* __init__, lines 1253-1255: the marker and the units appended to the
\* transient storage
\* as written: line 1253 names TXScopeMarker; TxScopeMarker is meant.
transient_storage(new_units, txs) ==
    <<[unit |-> <<TxScopeMarker, 0, 0>>, deleted |-> FALSE]>>
        \o [i \in 1..Len(new_units) |-> [unit |-> new_units[i], deleted |-> FALSE]]

\* __init__, line 1256: Content(Query(mapper)) iterates the transient mapper,
\* which syncs (iter_units, lines 742-748); Content._add_unit then raises
\* TypeError on the marker, which is no TXUnit (lines 1108-1112)
composed(c, m) ==
    [c EXCEPT !.units = m.units,
              !.ret = [op |-> "init", txs |-> c.txs,
                       raised |-> IF m.raised # "no" THEN m.raised ELSE "TypeError",
                       active |-> c.ret.active, made |-> {}]]

\* the units given to a composer
ComposerUnits == { <<StrandSelect, 1>>, <<StrandWriteDataBlock, 0, <<1>>>>,
                   <<TxScopeFinalize, TRUE>> }

\* TransactionComposer(indexer, new_units, txs), lines 1241-1258; r is what
\* random.getrandbits gives when txs is None
TransactionComposer(new_units, txs, r) ==
    /\ txs = None => txs_unused(r, indexer.active_scopes, {})
    /\ composer' =
         composed([txs |-> IF txs = None THEN r ELSE txs,
                   made |-> IF txs = None THEN {r} ELSE {},
                   storage |-> transient_storage(new_units,
                                                 IF txs = None THEN r ELSE txs),
                   units |-> <<>>,
                   ret |-> [op |-> "init", txs |-> None, raised |-> "no",
                            active |-> indexer.active_scopes, made |-> {}]],
                  sync_gen_next(new_mapper,
                                transient_storage(new_units,
                                                  IF txs = None THEN r ELSE txs)))
    /\ UNCHANGED <<storeVars, ioVars, mapperVars, contentVars, feedVars, pc,
                   committed, indexVars, tree, uniques>>

\* no composer has been made
ComposerInit ==
    composer = [txs |-> None, made |-> {}, storage |-> <<>>, units |-> <<>>,
                ret |-> [op |-> "none", txs |-> None, raised |-> "none",
                         active |-> {}, made |-> {}]]

ComposerNext ==
    \E n \in 0..MaxNewUnits : \E new_units \in [1..n -> ComposerUnits] :
        \/ \E txs \in TxScopeIDs : TransactionComposer(new_units, txs, 0)
        \/ \E r \in TxScopeIDs : TransactionComposer(new_units, None, r)

\* the calls of make_txs on one composer, from its _made_txses = set()
MakeTxsNext == \E txscopes \in ActiveScopes : make_txs(txscopes)

----------------------------------------------------------------------------
(* SearchTree -- src/searchtree.py.  A Node is an element of nodes, known by  *)
(* its position; children is <<left, right>>, None for no child.             *)

\* the keys given to the tree
TreeKeys == 1..MaxTreeKey

\* clear(), line 147: self.anchor = Node(self.AnchorK())
Anchor == 1

\* Node(k), lines 11-13
Node(k) == [k |-> k, children |-> <<None, None>>]

\* int(b) as an index of children
child_at(b) == IF b THEN 2 ELSE 1

\* n.k < k; AnchorK.__lt__, lines 139-140, is always true
node_lt(nodes, n, k) == n = Anchor \/ nodes[n].k < k

\* parent.children.index(n)
children_index(nodes, parent, n) == IF nodes[parent].children[1] = n THEN 1 ELSE 2

RECURSIVE bit_length(_)
\* int.bit_length()
bit_length(n) == IF n = 0 THEN 0 ELSE 1 + bit_length(n \div 2)

RECURSIVE Cursor_find(_, _, _)
\* Cursor.find(k) for a key, lines 51-58: path_nodes and has_result
Cursor_find(nodes, path, k) ==
    IF path[Len(path)] # Anchor /\ nodes[path[Len(path)]].k = k
    THEN [path_nodes |-> path, has_result |-> TRUE]
    ELSE IF nodes[path[Len(path)]].children[
                child_at(node_lt(nodes, path[Len(path)], k))] = None
    THEN [path_nodes |-> path, has_result |-> FALSE]
    ELSE Cursor_find(nodes,
            Append(path, nodes[path[Len(path)]].children[
                            child_at(node_lt(nodes, path[Len(path)], k))]),
            k)

\* insert_or_replace, lines 157-162: k is in the tree, its node is replaced
insert_replace(nodes, path, k) ==
    Append([nodes EXCEPT ![path[Len(path) - 1]].children[
                            children_index(nodes, path[Len(path) - 1],
                                           path[Len(path)])] = Len(nodes) + 1],
           [k |-> k, children |-> nodes[path[Len(path)]].children])

\* insert_or_replace, lines 165-166: the new node becomes a leaf
insert_leaf(nodes, path, k) ==
    Append([nodes EXCEPT ![path[Len(path)]].children[
                            child_at(node_lt(nodes, path[Len(path)], k))]
                                = Len(nodes) + 1],
           Node(k))

RECURSIVE rebase(_, _, _, _, _)
\* insert_or_replace, lines 175-189: the loop that rebases descendants; course
\* is 0 or 1, h is [nodes, raised]
rebase(h, node, course, rebase_dest, k) ==
    IF h.nodes[node].children[course + 1] = None THEN h
    ELSE IF (h.nodes[h.nodes[node].children[course + 1]].k < k) # (course = 1)
    THEN IF h.nodes[rebase_dest].children[
                child_at(h.nodes[rebase_dest].k
                            < h.nodes[h.nodes[node].children[course + 1]].k)] # None
         THEN [h EXCEPT !.raised = "AssertionError"]
         ELSE rebase([h EXCEPT
                        !.nodes[rebase_dest].children[
                            child_at(h.nodes[rebase_dest].k
                                < h.nodes[h.nodes[node].children[course + 1]].k)]
                                = h.nodes[node].children[course + 1],
                        !.nodes[node].children[course + 1] = None],
                     h.nodes[node].children[course + 1], 1 - course, node, k)
    ELSE rebase(h, h.nodes[node].children[course + 1], course, rebase_dest, k)

\* insert_or_replace, lines 168-173: the new node is to take the place of
\* node, the child of parent on the way to k; line 171 stores node, not the
\* new node, in parent.children
insert_drop(nodes, parent, node, k) ==
    Append([nodes EXCEPT ![parent].children[child_at(node_lt(nodes, parent, k))]
                            = node],
           [k |-> k,
            children |-> [i \in 1..2 |->
                            IF i = child_at(k < nodes[node].k) THEN node ELSE None]])

\* insert_or_replace(k), lines 151-190, with drop_depth as drawn; f is what
\* Cursor(self.anchor, stack=[]).find(k) gives; [nodes, raised, size]
insert_or_replace(t, k, drop_depth, f) ==
    IF f.has_result
    THEN [nodes |-> insert_replace(t.nodes, f.path_nodes, k), raised |-> "no",
          size |-> t.size]
    ELSE IF drop_depth + 1 >= Len(f.path_nodes)
    THEN [nodes |-> insert_leaf(t.nodes, f.path_nodes, k), raised |-> "no",
          size |-> t.size + 1]
    ELSE [size |-> t.size + 1] @@
         rebase([nodes |-> insert_drop(t.nodes, f.path_nodes[drop_depth + 1],
                                       f.path_nodes[drop_depth + 2], k),
                 raised |-> "no"],
                f.path_nodes[drop_depth + 2],
                1 - (child_at(k < t.nodes[f.path_nodes[drop_depth + 2]].k) - 1),
                Len(t.nodes) + 1, k)

RECURSIVE extreme(_, _, _, _)
\* delete, lines 203-207: nodes[0] and nodes[1] of the deque when the walk
\* along course ends
extreme(nodes, prev, n, course) ==
    IF nodes[n].children[course + 1] = None THEN <<prev, n>>
    ELSE extreme(nodes, n, nodes[n].children[course + 1], course)

\* delete, lines 208-212: detach the replacement node e[2] from e[1] and give
\* it the children of del_node
delete_two(nodes, del_node, course, e) ==
    [[nodes EXCEPT ![e[1]].children[
                    (IF e[1] = del_node THEN 1 - course ELSE course) + 1]
                        = nodes[e[2]].children[(1 - course) + 1]]
     EXCEPT ![e[2]].children =
                [nodes EXCEPT ![e[1]].children[
                    (IF e[1] = del_node THEN 1 - course ELSE course) + 1]
                        = nodes[e[2]].children[(1 - course) + 1]][del_node].children]

\* delete, lines 200-214, for a node that was found: the replacement node,
\* None for none
replacement_node(nodes, del_node, course) ==
    IF nodes[del_node].children[1] # None /\ nodes[del_node].children[2] # None
    THEN extreme(nodes, del_node, nodes[del_node].children[(1 - course) + 1],
                 course)[2]
    ELSE IF nodes[del_node].children[1] # None THEN nodes[del_node].children[1]
    ELSE nodes[del_node].children[2]

\* delete(k), lines 192-216, with course as drawn; f is what
\* Cursor(self.anchor, stack=deque(maxlen=2)).find(k) gives
delete(t, k, course, f) ==
    IF ~f.has_result
    THEN [nodes |-> t.nodes, raised |-> "LookupError", size |-> t.size]
    ELSE [nodes |->
            [(IF /\ t.nodes[f.path_nodes[Len(f.path_nodes)]].children[1] # None
                 /\ t.nodes[f.path_nodes[Len(f.path_nodes)]].children[2] # None
              THEN delete_two(t.nodes, f.path_nodes[Len(f.path_nodes)], course,
                              extreme(t.nodes, f.path_nodes[Len(f.path_nodes)],
                                      t.nodes[f.path_nodes[Len(f.path_nodes)]]
                                            .children[(1 - course) + 1],
                                      course))
              ELSE t.nodes)
             EXCEPT ![f.path_nodes[Len(f.path_nodes) - 1]].children[
                        children_index(t.nodes, f.path_nodes[Len(f.path_nodes) - 1],
                                       f.path_nodes[Len(f.path_nodes)])]
                        = replacement_node(t.nodes, f.path_nodes[Len(f.path_nodes)],
                                           course)],
          raised |-> "no", size |-> t.size - 1]

\* _try_find_node(k) is not None, lines 221-230: last_found answers for its
\* key; else the search from the root, anchor.children[1]
try_find_node(t, k) ==
    \/ k = t.last_found
    \/ /\ t.nodes[Anchor].children[2] # None
       /\ Cursor_find(t.nodes, <<t.nodes[Anchor].children[2]>>, k).has_result

RECURSIVE find_limit(_, _, _)
\* Cursor.find(limits[course]), lines 59-65: down along course to the end
find_limit(nodes, path, course) ==
    IF nodes[path[Len(path)]].children[course + 1] = None THEN path
    ELSE find_limit(nodes, Append(path, nodes[path[Len(path)]].children[course + 1]),
                    course)

RECURSIVE Cursor_next(_, _, _)
RECURSIVE Cursor_pivot(_, _, _)
\* Cursor.__next__, lines 74-99, iter_direction right: one round of the loop
\* from "move"; is_closed when the walk leaves the root
Cursor_next(nodes, path, course) ==
    IF course \in {0, 1}
    THEN IF nodes[path[Len(path)]].children[course + 1] # None
         THEN Cursor_pivot(nodes,
                Append(path, nodes[path[Len(path)]].children[course + 1]), 0 - 1)
         ELSE Cursor_pivot(nodes, path, course)
    ELSE IF Len(path) = 1
    THEN [path_nodes |-> <<>>, is_closed |-> TRUE]
    ELSE Cursor_pivot(nodes, SubSeq(path, 1, Len(path) - 1),
                      children_index(nodes, path[Len(path) - 1], path[Len(path)]) - 1)

\* Cursor.__next__, lines 95-99: "pivot"
Cursor_pivot(nodes, path, course) ==
    IF course + 1 = 1 THEN [path_nodes |-> path, is_closed |-> FALSE]
    ELSE Cursor_next(nodes, path, course + 1)

RECURSIVE yield_from(_, _)
\* _islice, line 248: yield from cur
yield_from(nodes, cur) ==
    IF cur.is_closed THEN <<>>
    ELSE <<nodes[cur.path_nodes[Len(cur.path_nodes)]].k>>
            \o yield_from(nodes, Cursor_next(nodes, cur.path_nodes, 1))

\* list(iter(tree)): _islice(), lines 235-248, with no start and no stop
islice(nodes) ==
    IF nodes[Anchor].children[2] = None THEN <<>>
    ELSE yield_from(nodes,
            [path_nodes |-> find_limit(nodes, <<nodes[Anchor].children[2]>>, 0),
             is_closed |-> FALSE])

\* a call returns: r is [nodes, raised, size]
tree_returns(op, k, r, last_found, ref, found, out) ==
    /\ tree' = [nodes |-> r.nodes, size |-> r.size, last_found |-> last_found,
                ref |-> ref,
                ops |-> tree.ops + (IF op \in {"insert_or_replace", "delete"}
                                    THEN 1 ELSE 0),
                ret |-> [op |-> op, k |-> k, raised |-> r.raised,
                         found |-> found, out |-> out]]
    /\ UNCHANGED <<storeVars, ioVars, mapperVars, contentVars, feedVars, pc,
                   committed, indexVars, composer, uniques>>

\* tree.insert_or_replace(k); random.getrandbits(size.bit_length()).bit_length()
\* gives drop_depth
tree_insert_or_replace(k, drop_depth) ==
    /\ tree.ops < MaxTreeOps
    /\ drop_depth <= bit_length(tree.size)
    /\ tree_returns("insert_or_replace", k,
            insert_or_replace(tree, k, drop_depth,
                              Cursor_find(tree.nodes, <<Anchor>>, k)),
            tree.last_found, tree.ref \cup {k}, FALSE, <<>>)

\* tree.delete(k); random.getrandbits(1) gives course
tree_delete(k, course) ==
    /\ tree.ops < MaxTreeOps
    /\ tree_returns("delete", k,
            delete(tree, k, course, Cursor_find(tree.nodes, <<Anchor>>, k)),
            IF tree.last_found = k THEN None ELSE tree.last_found,
            tree.ref \ {k}, FALSE, <<>>)

\* k in tree
tree_contains(k) ==
    tree_returns("contains", k,
        [nodes |-> tree.nodes, raised |-> "no", size |-> tree.size],
        IF try_find_node(tree, k) THEN k ELSE tree.last_found,
        tree.ref, try_find_node(tree, k), <<>>)

\* list(tree)
tree_iter ==
    tree_returns("iter", None,
        [nodes |-> tree.nodes, raised |-> "no", size |-> tree.size],
        tree.last_found, tree.ref, FALSE, islice(tree.nodes))

\* SearchTree(), lines 142-149
TreeInit ==
    tree = [nodes |-> <<[k |-> None, children |-> <<None, None>>]>>, size |-> 0,
            last_found |-> None, ref |-> {}, ops |-> 0,
            ret |-> [op |-> "none", k |-> None, raised |-> "none",
                     found |-> FALSE, out |-> <<>>]]

TreeNext ==
    \/ \E k \in TreeKeys : \E drop_depth \in 0..bit_length(MaxTreeOps) :
            tree_insert_or_replace(k, drop_depth)
    \/ \E k \in TreeKeys : \E course \in {0, 1} : tree_delete(k, course)
    \/ \E k \in TreeKeys : tree_contains(k)
    \/ tree_iter

----------------------------------------------------------------------------
(* The map of a unique ARFMapperIndex -- ARFMapperIndex.UniquesMap,          *)
(* src/arf.py lines 776-780, a PerishablesMap over a dict,                   *)
(* src/containers/perishables.py.                                            *)

UniqKeys == 1..MaxUniqKeys

\* UniquesMapMixin.test_valid(k), lines 777-779, with _unit_valid_test, line
\* 667: the store id under k is in storage
\* as written: PerishablesContainerMixin.__init__, perishables.py line 50,
\* stores the test in the instance under the name test_valid, where it hides
\* the method of lines 777-779 and is given k; the method is meant.
Uniques_test_valid(p, k) == p.vals[k] \notin p.dead

\* "k in map_", perishables.py lines 13-20
Uniques_contains(p, k) ==
    IF k \in keys(p)
    THEN IF Uniques_test_valid(p, k) THEN [p EXCEPT !.ret.truth = TRUE]
         ELSE observe_expired(p, k)
    ELSE p

\* map_[k] = store_id, line 827: UserDict.__setitem__; a dict keeps the place
\* of a key that it holds
Uniques_setitem(p, k, store_id) ==
    [p EXCEPT !.data = IF k \in keys(p) THEN p.data ELSE Append(p.data, k),
              !.vals[k] = store_id,
              !.ctr = store_id,
              !.ret.out = store_id]

\* _add_unit, lines 821-827, unique, of a unit that storage has given
\* store_id; c is the map after "k not in map_"
Uniques_add_unit(c, k, store_id) ==
    IF c.ret.truth THEN [c EXCEPT !.ret.raised = "AssertionError"]
    ELSE Uniques_setitem(c, k, store_id)

\* a call on the map ends
uniques_call(p) ==
    /\ uniques' = p
    /\ UNCHANGED <<storeVars, ioVars, mapperVars, contentVars, feedVars, pc,
                   committed, indexVars, composer, tree>>

\* index.maybe_add_unit(ui) for the unit storage appended last, its key being k
uniques_add(k) ==
    /\ uniques.ctr < MaxUniqIds
    /\ uniques_call(Uniques_add_unit(Uniques_contains(called(uniques, "add", k), k),
                                     k, uniques.ctr + 1))

\* storage.discard(id) of a unit of the index
uniques_discard(id) ==
    /\ id <= uniques.ctr
    /\ id \notin uniques.dead
    /\ uniques_call([called(uniques, "discard", id) EXCEPT
                        !.dead = uniques.dead \cup {id}])

\* iter(map_), perishables.py line 11
uniques_iter ==
    /\ BagCardinality(uniques.its) < MaxIters
    /\ uniques_call([called(uniques, "iter", 0) EXCEPT
                        !.its = uniques.its (+) SetToBag({[state |-> "created",
                                                          used |-> Len(uniques.data),
                                                          pos |-> 0]})])

\* next(it), perishables.py lines 71-77
uniques_next(itr) ==
    uniques_call(
        iter_step(iter_enter(called(uniques, "next", 0), itr),
                  [itr EXCEPT !.state = "open"],
                  {j \in (itr.pos + 1)..Len(uniques.data) :
                        Uniques_test_valid(uniques, uniques.data[j])}))

\* it.close(), or the generator is dropped: an open one leaves its with block
uniques_close(itr) ==
    uniques_call(
        IF itr.state = "open" THEN iter_close(called(uniques, "close", 0), itr)
        ELSE [called(uniques, "close", 0) EXCEPT
                !.its = uniques.its (-) SetToBag({itr})])

\* uniq_cls(test), line 803
UniquesInit ==
    uniques = [data |-> <<>>, vals |-> [k \in UniqKeys |-> None], ctr |-> 0,
               dead |-> {}, expired |-> {}, iters_open |-> 0, its |-> EmptyBag,
               ret |-> [op |-> "init", arg |-> 0, out |-> None, truth |-> FALSE,
                        raised |-> "no", skipped |-> {}, removed |-> {},
                        present |-> FALSE]]

UniquesNext ==
    \/ \E k \in UniqKeys : uniques_add(k)
    \/ \E id \in 1..MaxUniqIds : uniques_discard(id)
    \/ uniques_iter
    \/ \E itr \in BagToSet(uniques.its) : uniques_next(itr) \/ uniques_close(itr)

vars == <<storeVars, ioVars, mapperVars, contentVars, laterVars>>

Init == StoreInit /\ IOInit /\ MapperInit /\ ContentInit /\ FeedInit
        /\ PerishInit /\ MergeInit /\ IndexInit /\ IndexerInit /\ ComposerInit /\ TreeInit
        /\ UniquesInit

SpecStore == Init /\ [][StoreNext]_vars

SpecIO == Init /\ [][IONext]_vars

SpecRawIO == Init /\ [][RawIONext]_vars

SpecMapper == Init /\ [][MapperNext]_vars

SpecContent == Init /\ [][ContentNext]_vars

SpecS3 == Init /\ [][S3Next]_vars

SpecS4 == Init /\ [][S4Next]_vars

SpecFeed == Init /\ [][FeedNext]_vars

SpecPerish == Init /\ [][PerishNext]_vars

SpecMerge == Init /\ [][MergeNext]_vars

SpecIndex == Init /\ [][IndexNext]_vars

SpecOpenTXs == Init /\ [][OpenTXsNext]_vars

SpecContentIter == Init /\ [][ContentIterNext]_vars

SpecIndexer == Init /\ [][IndexerNext]_vars

SpecComposer == Init /\ [][ComposerNext]_vars

SpecMakeTxs == Init /\ [][MakeTxsNext]_vars

SpecTree == Init /\ [][TreeNext]_vars

SpecUniques == Init /\ [][UniquesNext]_vars

----------------------------------------------------------------------------
(* Claims on the storage and the IO layer *)

IssuedIds == {issued[i] : i \in 1..Len(issued)}

\* C1: every append returns an id >= 1 that is strictly greater than every id
\* returned by an earlier append, so no id is handed out twice, also after the
\* record that held it was discarded.
C1_IdsStrictlyIncreasing ==
    \A i \in 1..Len(issued) :
        /\ issued[i] >= 1
        /\ \A j \in 1..(i - 1) : issued[j] < issued[i]

\* an append made after an earlier record was discarded
C1_Witness ==
    /\ st_ret.op = "append"
    /\ Len(issued) >= 2
    /\ \E i \in 1..(Len(issued) - 1) : issued[i] \notin DOMAIN store

\* C2: multi_read_iter(start_id) yields, in increasing id order, exactly one
\* (id, pieces) pair for every appended id >= start_id that is not discarded,
\* and nothing else.
C2_ReadYieldsLiveFromStart ==
    st_ret.op = "read_ctx" =>
        LET live == SortedSeq({k \in DOMAIN store : k >= it.start_id})
        IN it.out = [i \in 1..Len(live) |->
                        [id |-> live[i], cur_item |-> store[live[i]]]]

\* C3: discard of an id that was appended and is already discarded raises no
\* error and leaves the store and the id counter unchanged.
C3_DiscardIdempotent ==
    [][(/\ st_ret'.op = "discard"
        /\ st_ret'.arg \in IssuedIds
        /\ st_ret'.arg \notin DOMAIN store)
       => (st_ret'.raised = "no" /\ store' = store /\ ctr' = ctr)]_vars

\* C3, at the IO layer: delete_next on a record that is already deleted
\* rewrites nothing.
C3_DeleteNextOnDeleted ==
    [][(/\ io_ret'.op = "delete_next"
        /\ pos < Len(stream)
        /\ stream[pos + 1] \in deleted_range)
       => stream' = stream]_vars

\* the deleted encoding of a record of sz bytes, as the format states it
ClaimedDeletedBytes(sz) ==
    IF sz = 1 THEN <<0>> ELSE <<1>> \o [j \in 1..(sz - 2) |-> 1] \o <<0>>

\* C4: delete_next on a live record of size sz, cursor at its start, overwrites
\* exactly those sz bytes with the deleted encoding, leaves the cursor sz bytes
\* further and every other byte unchanged; a later read_next there returns None
\* and advances by sz, and every other record decodes as before.
C4_DeleteNextFrame ==
    [][\A i \in 1..Len(offs) :
        (/\ io_ret'.op = "delete_next"
         /\ pos = offs[i]
         /\ stream[offs[i] + 1] \notin deleted_range)
        => LET sz == RecordEnd(i) - offs[i] IN
            /\ stream' = [j \in 1..Len(stream) |->
                            IF j > offs[i] /\ j <= offs[i] + sz
                            THEN ClaimedDeletedBytes(sz)[j - offs[i]]
                            ELSE stream[j]]
            /\ pos' = offs[i] + sz
            /\ read_next_at(stream', offs[i], select_all)
                    = [ok |-> TRUE, deleted |-> TRUE, v |-> <<>>,
                       pos |-> offs[i] + sz]
            /\ \A k \in (1..Len(offs)) \ {i} :
                    read_next_at(stream', offs[k], select_all)
                        = read_next_at(stream, offs[k], select_all)]_vars

\* a live record of three bytes or more, with a record before it and one after
\* it, was just deleted
C4_Witness ==
    /\ io_ret.op = "delete_next"
    /\ io_ret.live
    /\ io_ret.rec > 1
    /\ io_ret.rec < Len(offs)
    /\ RecordEnd(io_ret.rec) - offs[io_ret.rec] >= 3
    /\ pos = RecordEnd(io_ret.rec)

----------------------------------------------------------------------------
(* Claims on the mapper *)

\* the ids of the TxScopeMarkers the mapper has mapped
MappedMarkers == {k \in DOMAIN units : units[k].typeid = TxScopeMarker}

\* C5: after every completed sync, cur_txscope is the next-txs of the most
\* recent TxScopeMarker at or before the last mapped id, and None if no marker
\* has been mapped.
C5_CurTxscopeFollowsMarkers ==
    sync_ret.raised = "no" =>
        cur_txscope = IF MappedMarkers = {} THEN None
                      ELSE log[Max(MappedMarkers)].unit[3]

\* a completed sync has mapped a marker after transaction units
C5_Witness ==
    /\ sync_ret.raised = "no"
    /\ MappedMarkers # {}
    /\ \E k \in DOMAIN units : is_TXUnit(units[k].typeid) /\ k < Max(MappedMarkers)
    /\ cur_txscope # log[Max(MappedMarkers)].unit[2]

\* the modifiers of type typeid mapped in txs before id k
EarlierMods(k, txs, typeid) ==
    {j \in DOMAIN units : j < k /\ units[j].txs = txs /\ units[j].typeid = typeid}

MappedModifiers == {k \in DOMAIN units : is_TXModifier(units[k].typeid)}

\* C6, as stated: within one txs the mod_ids of the modifiers of one type are
\* 0,1,2,... in scan order, so a modifier's mod_id is the number of modifiers
\* of its type mapped before it in its txs.
C6_ModIdsDense ==
    \A k \in MappedModifiers :
        units[k].mod_assoc[1]
            = Cardinality(EarlierMods(k, units[k].txs, units[k].typeid))

\* C6, amended: a modifier's mod_id is the number of modifiers of its type
\* mapped before it in its txs plus, for a type other than TxScopeFinalize,
\* the number of TxScopeFinalize units mapped before it in its txs.
C6_ModIdsCountFinalizes ==
    \A k \in MappedModifiers :
        units[k].mod_assoc[1]
            = Cardinality(EarlierMods(k, units[k].txs, units[k].typeid))
              + IF units[k].typeid = TxScopeFinalize THEN 0
                ELSE Cardinality(EarlierMods(k, units[k].txs, TxScopeFinalize))

\* a StrandSelect was mapped after a TxScopeFinalize of its txs
C6_Witness ==
    \E k \in MappedModifiers :
        /\ units[k].typeid = StrandSelect
        /\ EarlierMods(k, units[k].txs, TxScopeFinalize) # {}

\* no two mapped modifiers of one (txs, type) have the same mod_id
ModIdsUnique ==
    \A j \in MappedModifiers : \A k \in MappedModifiers :
        (j # k /\ units[j].txs = units[k].txs /\ units[j].typeid = units[k].typeid)
            => units[j].mod_assoc # units[k].mod_assoc

\* C7: no two modifiers of one (txs, type) get the same mod_id, and the mod_id
\* recorded for a mapped modifier is not changed by mapping later units.
C7_ModIdsStableAndUnique ==
    [][/\ ModIdsUnique'
       /\ \A k \in MappedModifiers :
            k \in DOMAIN units' /\ units'[k].mod_assoc = units[k].mod_assoc]_vars

\* two modifiers of one type are mapped in one txs
C7_Witness ==
    \E j \in MappedModifiers : \E k \in MappedModifiers :
        j < k /\ units[j].txs = units[k].txs /\ units[j].typeid = units[k].typeid

\* C8: the SubjectWithContext that _context_for builds binds only modifiers
\* whose (txs, type, mod_id) is (subject.txs, type, subject.mod_assoc[type]).
C8_ContextBindsMatching ==
    ctx.subj # None =>
        \A i \in 1..Len(txmods) :
            ctx.mods[i] # None =>
                /\ units[ctx.mods[i]].txs = units[ctx.subj].txs
                /\ units[ctx.mods[i]].typeid = txmods[i]
                /\ units[ctx.mods[i]].mod_assoc[1] = units[ctx.subj].mod_assoc[i]

\* a context was built that binds a modifier, with another modifier of that
\* type mapped that it does not bind
C8_Witness ==
    /\ ctx.subj # None
    /\ ctx.raised = "no"
    /\ \E i \in 1..Len(txmods) :
        /\ ctx.mods[i] # None
        /\ \E k \in MappedModifiers : k # ctx.mods[i] /\ units[k].typeid = txmods[i]

\* the five units of scenario S3 are mapped, in one txs
S3Mapped ==
    /\ \A k \in 1..5 : k \in DOMAIN units
    /\ \A k \in 1..5 : units[k].txs = units[1].txs

\* C9: in scenario S3 the context of the first write binds the StrandSelect
\* with mod_id 1 and has strand 2, and the context of the second write binds
\* the StrandSelect with mod_id 2 and has strand 3.
C9_S3Contexts ==
    (S3Mapped /\ ctx.subj # None) =>
        /\ ctx.raised = "no"
        /\ ctx.mods[txmods_index(StrandSelect)] # None
        /\ units[ctx.mods[txmods_index(StrandSelect)]].mod_assoc[1]
                = IF ctx.subj = 3 THEN 1 ELSE 2
        /\ ctx.strand = IF ctx.subj = 3 THEN 2 ELSE 3

C11_ReadStartNeverDecreases ==
    \A i \in 1..(Len(sync_ret.reads) - 1) :
        sync_ret.reads[i].start <= sync_ret.reads[i + 1].start

\* C11, amended: units.last_sync_id and last_scan_ahead_id never decrease,
\* every read of storage starts above units.last_sync_id, the reads of phase A
\* and of the main loop right behind it, so no mapped record is read again and
\* no id is mapped twice.
C11_CursorsNeverRewind ==
    [][/\ last_sync_id' >= last_sync_id
       /\ sync_gen'.last_scan_ahead_id >= sync_gen.last_scan_ahead_id
       /\ total_lifetime_units_mapped' = Cardinality(DOMAIN units')
       /\ \A i \in 1..Len(sync_ret'.reads) :
            sync_ret'.reads[i].start > sync_ret'.reads[i].mapped
       /\ \A i \in 1..Len(sync_ret'.reads) :
            sync_ret'.reads[i].phase \in {"A", "C"}
                => sync_ret'.reads[i].start = sync_ret'.reads[i].mapped + 1]_vars

\* a sync that goes through all three phases: it maps a global unit, skims
\* past transaction units to a marker and maps them in the main loop
C11_Witness ==
    /\ sync_ret.raised = "no"
    /\ Len(sync_ret.reads) = 3
    /\ sync_ret.reads[2].mapped >= 1
    /\ sync_gen.last_scan_ahead_id > sync_ret.reads[3].start
    /\ last_sync_id > sync_ret.reads[3].mapped

\* C12: sync() is re-entrant-safe: when a recv_extend callback that runs during
\* a sync() consumes its iterator and so enters sync() again, the nested call
\* terminates, no feed is notified again for the same growth, and the outer
\* sync() returns as a sync() without a nested call does, raising nothing.
C12_SyncReentrantSafe ==
    (feed_ret.op = "sync" /\ feed_ret.nested > 0)
        => /\ feed_ret.raised = "no"
           /\ \A f \in 1..Len(all_feeds) : feed_ret.ext[f] <= 1

\* C13: a sync() that maps at least one new id invokes recv_extend exactly once
\* on every feed, and a sync() that maps no new id invokes it on none.
C13_ExtendOncePerGrowth ==
    feed_ret.op = "sync"
        => \A f \in 1..Len(all_feeds) :
              feed_ret.ext[f] = IF feed_ret.mapped > 0 THEN 1 ELSE 0

\* the same for the feeds whose recv_extend leaves its iterator alone, in a
\* sync() that raises nothing
C13_ExtendOncePerGrowthNop ==
    (feed_ret.op = "sync" /\ feed_ret.raised = "no")
        => \A f \in 1..Len(all_feeds) :
              all_feeds[f].recv_extend = "_nop"
                  => feed_ret.ext[f] = IF feed_ret.mapped > 0 THEN 1 ELSE 0

\* C14, as stated: whenever recv_delete(k) is called on a feed, k is at most the
\* feed's last_sync_id, that is, k was delivered to the feed through
\* recv_extend before.
C14_DeleteOnlyDelivered ==
    \A d \in feed_ret.dels :
        d.k <= d.last_sync_id /\ d.k \in delivered[d.feed]

\* C14, amended: whenever recv_delete(k) is called on a feed, k is at most the
\* feed's last_sync_id at the moment of the call, and k was mapped; every id
\* the feed was given and that is released from units while the feed is
\* registered is passed to the feed's recv_delete.
C14_DeleteOnlyAtOrBelowCursor ==
    /\ \A d \in feed_ret.dels :
          /\ d.k <= d.last_sync_id
          /\ d.k \in feed_ret.released
          /\ d.k <= last_sync_id
    /\ \A f \in 1..Len(all_feeds) : \A k \in feed_ret.released :
          k \in delivered[f] => \E d \in feed_ret.dels : d.feed = f /\ d.k = k

\* a recv_delete(k) for an id the feed was given before, and a release of an
\* id above a feed's last_sync_id that calls no recv_delete
C14_Witness ==
    /\ \E d \in feed_ret.dels : d.k \in delivered[d.feed]
    /\ feed_ret.op = "getitem"

C14_WitnessSilent ==
    /\ feed_ret.released # {}
    /\ feed_ret.dels = {}
    /\ Len(all_feeds) > 0

\* C15, as stated: when storage.discard(k) is called for an id k that a feed
\* was given, that feed's recv_delete(k) is called before discard returns.
C15_DeleteSynchronous ==
    feed_ret.op = "discard"
        => \A f \in 1..Len(all_feeds) :
              feed_ret.arg \in delivered[f]
                  => \E d \in feed_ret.dels : d.feed = f /\ d.k = feed_ret.arg

\* C15, amended: storage.discard(k) calls no recv_delete and leaves units as it
\* is; recv_delete(k) is called on every feed that was given k in the call that
\* releases k from units, and mapper[k] for a discarded, mapped k is such a
\* call.
C15_DeleteDeliveredOnRelease ==
    [][/\ feed_ret'.op = "discard"
            => feed_ret'.dels = {} /\ units' = units /\ units_expired' = units_expired
       /\ \A f \in 1..Len(all_feeds) : \A k \in delivered[f] :
            (k \in DOMAIN units /\ k \notin DOMAIN units')
                => \E d \in feed_ret'.dels : d.feed = f /\ d.k = k
       /\ (feed_ret'.op = "getitem" /\ ~storage_contains(log, feed_ret'.arg))
            => feed_ret'.arg \notin DOMAIN units'
      ]_vars

\* storage.discard(k) has returned, a feed was given k, and k is still in units
C15_Witness ==
    /\ feed_ret.op = "discard"
    /\ \E f \in 1..Len(all_feeds) : feed_ret.arg \in delivered[f]
    /\ feed_ret.arg \in DOMAIN units

\* C16: an iterator over a perishable container never yields a key whose
\* test_valid is false at the moment it is yielded; every invalid key the
\* iterator meets is recorded in expired instead (and is released with expired
\* if the same call closes the last iterator).
C16_IterationYieldsOnlyValid ==
    pc.ret.op \in {"next", "len"}
        => /\ pc.ret.raised = "no" /\ pc.ret.op = "next"
                => /\ pc.ret.out \in keys(pc)
                   /\ pc.ret.out \notin pc.discarded
                   /\ pc.ret.out \notin pc.expired
           /\ \A k \in pc.ret.skipped :
                /\ k \in pc.discarded
                /\ pc.ret.op = "next" => k # pc.ret.out
                /\ k \in pc.expired \/ (k \in pc.ret.removed /\ k \notin keys(pc))

\* an iterator passed an invalid key and yielded the valid key behind it
C16_Witness ==
    /\ pc.ret.op = "next"
    /\ pc.ret.out # None
    /\ pc.ret.skipped # {}
    /\ pc.ret.skipped \subseteq pc.expired

\* C17: while an iterator is open (iters_open > 0) no operation removes a key
\* from the underlying container or from expired; a key is removed only by a
\* call that ends with iters_open = 0.
C17_RemovalOnlyUnlocked ==
    [][/\ ~(keys(pc) \subseteq keys(pc')) => pc'.iters_open = 0
       /\ ~(pc.expired \subseteq pc'.expired) => pc'.iters_open = 0
       /\ pc'.iters_open > 0 => pc'.ret.removed = {}
      ]_vars

\* __getitem__ met an invalid key while an iterator was open: the key is
\* recorded and stays in the container
C17_Witness ==
    /\ pc.ret.op = "getitem"
    /\ pc.ret.raised = "KeyError"
    /\ pc.iters_open > 0
    /\ pc.ret.arg \in pc.expired \cap keys(pc)

\* C18: when the last open iterator closes, every key recorded as expired,
\* those the closing call met included, is removed from the underlying
\* container and expired becomes empty; and next() yields the first valid key
\* behind the iterator's position, so that with 1, 2, 3 inserted and 2
\* discarded an iteration yields 1, then 3, and leaves 2 keys.
C18_LastCloseFlushes ==
    [][/\ (pc'.iters_open = 0 /\ BagCardinality(pc'.its) < BagCardinality(pc.its))
            => /\ pc'.expired = {}
               /\ keys(pc') = keys(pc) \ (pc.expired \cup pc'.ret.skipped)
               /\ pc'.ret.removed = keys(pc) \cap (pc.expired \cup pc'.ret.skipped)
       /\ (pc'.ret.op = "next" /\ pc'.ret.raised = "no")
            => \E itr \in BagToSet(pc.its) : \E j \in (itr.pos + 1)..Len(pc.data) :
                  /\ pc'.ret.out = pc.data[j]
                  /\ pc'.ret.skipped = {pc.data[x] : x \in (itr.pos + 1)..(j - 1)}
                  /\ pc'.its = (pc.its (-) SetToBag({itr}))
                                (+) SetToBag({[state |-> "open", used |-> itr.used,
                                               pos |-> j]})
       /\ (pc'.ret.op = "next" /\ pc'.ret.raised = "StopIteration")
            => \E itr \in BagToSet(pc.its) :
                  /\ pc'.ret.skipped = {pc.data[x] : x \in (itr.pos + 1)..Len(pc.data)}
                  /\ pc'.ret.skipped \subseteq pc.discarded
      ]_vars

\* 1, 2, 3 inserted, 2 discarded, and the one iterator, having yielded 1 and
\* 3, has just ended: 2 is gone and the size is 2
C18_Witness ==
    /\ pc.ret.op = "next"
    /\ pc.ret.raised = "StopIteration"
    /\ pc.last_add = 3
    /\ pc.discarded = {2}
    /\ pc.ret.removed = {2}
    /\ pc.data = <<1, 3>>
    /\ pc.expired = {}
    /\ pc.iters_open = 0

\* C19: __getitem__(k) for a key k that is in the underlying map and whose
\* test_valid is false raises KeyError, and __contains__(k) returns False;
\* both record k in expired, and if no iterator is open the same call removes
\* k from the underlying map (and empties expired).
C19_ExpiredKeyObserved ==
    (pc.ret.op \in {"getitem", "contains"} /\ pc.ret.present
                                           /\ pc.ret.arg \in pc.discarded)
        => /\ pc.ret.op = "getitem" => pc.ret.raised = "KeyError" /\ pc.ret.out = None
           /\ pc.ret.op = "contains" => pc.ret.raised = "no" /\ ~pc.ret.truth
           /\ IF pc.iters_open = 0
              THEN /\ pc.ret.arg \notin keys(pc)
                   /\ pc.ret.arg \in pc.ret.removed
                   /\ pc.expired = {}
              ELSE /\ pc.ret.arg \in pc.expired
                   /\ pc.ret.arg \in keys(pc)
                   /\ pc.ret.removed = {}

\* __getitem__ of an invalid key with no iterator open: KeyError, key removed
C19_Witness ==
    /\ pc.ret.op = "getitem"
    /\ pc.ret.present
    /\ pc.ret.arg \in pc.discarded
    /\ pc.iters_open = 0
    /\ pc.ret.removed = {pc.ret.arg}

\* C20, as stated: after merge_in(other) completes there is no pair (rear,
\* fore), rear a live subject of the merged Content and fore a subject of
\* other, for which a registered occlusion test holds (a subject paired with
\* itself left aside).
C20_NoOccludedPair ==
    committed.ret.raised = "no"
        => ~ \E rear \in committed.subjects : \E fore \in committed.ret.other :
                rear.store_id # fore.store_id /\ occlusion_test(rear, fore)

\* C20, amended: after merge_in(other) completes there is no pair (rear, fore),
\* rear a live subject of the merged Content that stands behind fore in content
\* order and fore a subject of other, for which a registered occlusion test
\* holds; every subject of the Content before the merge stands behind every
\* subject of other, and the subjects removed are exactly those of them that
\* some subject of other occludes.
C20_NoOccludedPairBehind ==
    committed.ret.raised = "no"
        => /\ ~ \E rear \in committed.subjects : \E fore \in committed.ret.other :
                  rear.store_id < fore.store_id /\ occlusion_test(rear, fore)
           /\ committed.ret.other \subseteq committed.subjects
           /\ \A id \in committed.ret.removed :
                  \A s \in committed.subjects : s.store_id # id

\* a merge_in that removed an occluded subject and kept another one
C20_Witness ==
    /\ committed.ret.raised = "no"
    /\ committed.ret.removed # {}
    /\ committed.subjects \ committed.ret.other # {}

----------------------------------------------------------------------------
\* C21: merging into a Content another Content whose units it holds already
\* completes without error, discards nothing from storage and leaves the
\* subjects index and the modifiers index as they were.
C21_MergeAgainIdempotent ==
    [][committed'.ret.op = "merge_in_again"
         => /\ committed'.ret.raised = "no"
            /\ committed'.ret.removed = {}
            /\ committed'.ret.unused = {}
            /\ committed'.subjects = committed.subjects
            /\ committed'.modifiers = committed.modifiers]_vars

\* C22: calc_unused_mods returns exactly the modifiers that no subject of the
\* Content binds, also when several subjects bind one modifier.
C22_UnusedModsExact ==
    committed.ret.op = "calc_unused_mods"
        => /\ committed.ret.raised = "no"
           /\ committed.ret.unused
                = committed.modifiers \ {s.mod : s \in committed.subjects}

\* C23: once the units of scenario S4 are in storage and the mapper has
\* synchronised over all of them, the units of both transactions are mapped
\* for the indexer, the second StrandCreate among them as a subject of scope 1
\* whose strand is 5.
C23_S4Committed ==
    (/\ Len(log) = Len(S4Script)
     /\ \A k \in 1..Len(log) : ~log[k].deleted
     /\ sync_ret.log_len = Len(S4Script))
        => /\ 6 \in DOMAIN units
           /\ units[6].typeid = StrandCreate
           /\ units[6].txs = 1
           /\ SubjectWithContext(units, units[6],
                                 Query(units, mod_index_ks(units[6]))).strand = 5

\* a sequence of store ids in increasing order
Increasing(s) == \A i, j \in 1..Len(s) : i < j => s[i] < s[j]

\* C29: whatever the order of the adds, iter_with_constraints gives the ids
\* of the matching units that are in storage, each once, in increasing order;
\* and while well_sorted is true every leaf set holds its ids in increasing
\* order, well_sorted being cleared by the first add of an id smaller than the
\* last id added to its leaf.
C29_IterSorted ==
    [][/\ index'.ret.op = "iter"
          => /\ Increasing(index'.ret.out)
             /\ Range(index'.ret.out)
                  = UNION {Range(index.maps[k].data) \ index.dead :
                             k \in {x \in DOMAIN index.maps :
                                        matches(x, index'.ret.cons)}}
       /\ index'.well_sorted => \A k \in DOMAIN index'.maps :
                                    Increasing(index'.maps[k].data)
       /\ \A ui \in IndexUnits :
            index_add(ui)
                => (index'.well_sorted
                       <=> /\ index.well_sorted
                           /\ ui.store_id >= leaf_of(index, mapkey_for(ui)).last_add)
      ]_vars

\* an id smaller than the last one added to its leaf has arrived, and an
\* iteration over several ids has been made after it
C29_Witness ==
    /\ index.ret.op = "iter"
    /\ Len(index.ret.out) >= 2
    /\ ~ index.well_sorted
    /\ \E k \in DOMAIN index.maps : ~ Increasing(index.maps[k].data)

\* the unit of the last call on the indexer
last_ui == indexer.units[Len(indexer.units)]

\* the store ids that the OpenTXsIndex holds for the scope txs
open_ids(txs) ==
    UNION {Range(indexer.open_transactions.maps[k].data) :
             k \in {x \in DOMAIN indexer.open_transactions.maps : x[1] = txs}}

\* the transaction units of the scope txs given after its last finalize
since_finalize(txs) ==
    {k \in 1..Len(indexer.units) :
        /\ is_TXUnit(indexer.units[k].typeid)
        /\ indexer.units[k].txs = txs
        /\ \A j \in k..Len(indexer.units) :
              ~ (indexer.units[j].typeid = TxScopeFinalize /\ indexer.units[j].txs = txs)}

\* C24: a TxScopeFinalize that is not a commit leaves the committed Content as
\* it was: nothing is exported to it, merge_in is not called, nothing that it
\* holds is discarded.
C24_ReleaseLeavesCommitted ==
    [][(/\ Len(indexer'.units) = Len(indexer.units) + 1
        /\ indexer'.units[Len(indexer'.units)].typeid = TxScopeFinalize
        /\ ~ indexer'.units[Len(indexer'.units)].cached_pcs[1])
          => /\ committed' = committed
             /\ ~ indexer'.ret.exported
             /\ indexer'.dead = indexer.dead]_vars

\* a transaction with a subject is released after another one was committed
C24_Witness ==
    /\ Len(indexer.units) > 0
    /\ indexer.ret.op = "maybe_add_unit"
    /\ last_ui.typeid = TxScopeFinalize /\ ~ last_ui.cached_pcs[1]
    /\ \E k \in indexer.ret.tx_uis : is_TXSubject(indexer.units[k].typeid)
    /\ committed.subjects # {}

finalized_subjects ==
    {k \in indexer.ret.tx_uis : is_TXSubject(indexer.units[k].typeid)}

finalized_conflict ==
    \E r, k \in finalized_subjects :
        /\ r < k
        /\ context_in(units_of(indexer, indexer.ret.tx_uis), r).raised = "no"
        /\ context_in(units_of(indexer, indexer.ret.tx_uis), k).raised = "no"
        /\ occlusion_test(
              subject_of(units_of(indexer, indexer.ret.tx_uis),
                         context_in(units_of(indexer, indexer.ret.tx_uis), r)),
              subject_of(units_of(indexer, indexer.ret.tx_uis),
                         context_in(units_of(indexer, indexer.ret.tx_uis), k)))

\* C26: Content(units) fails when a subject of the units is occluded by a
\* subject of the same units that follows it in content order: with the
\* conflict error (ValueError) when every subject has a context, and nothing
\* is exported.
C26_ConflictRefused ==
    (/\ Len(indexer.units) > 0
     /\ last_ui.typeid = TxScopeFinalize /\ last_ui.cached_pcs[1]
     /\ finalized_conflict)
        => /\ indexer.ret.raised \notin {"no", "none"}
           /\ ~ indexer.ret.exported
           /\ (\A k \in finalized_subjects :
                  context_in(units_of(indexer, indexer.ret.tx_uis), k).raised = "no")
                => indexer.ret.raised = "ValueError"

C26_Witness ==
    /\ Len(indexer.units) > 0
    /\ last_ui.typeid = TxScopeFinalize /\ last_ui.cached_pcs[1]
    /\ finalized_conflict
    /\ indexer.ret.raised = "ValueError"
    /\ \A k \in finalized_subjects :
          context_in(units_of(indexer, indexer.ret.tx_uis), k).raised = "no"

\* C30: the globals index holds exactly the units given to the indexer that
\* are not transaction units and are in storage, and the transaction units
\* are in the OpenTXsIndex until their scope is finalized.
C30_GlobalsExactlyNonTX ==
    /\ {indexer.globals[k] : k \in DOMAIN indexer.globals} \ indexer.dead
         = {k \in 1..Len(indexer.units) : ~ is_TXUnit(indexer.units[k].typeid)}
              \ indexer.dead
    /\ \A txs \in TxsIds : open_ids(txs) = since_finalize(txs)

\* the TxScopeFinalize that the subject k binds is mapped and is a release
bound_release(us, k) ==
    \E m \in DOMAIN us :
        /\ us[m].typeid = TxScopeFinalize
        /\ us[m].txs = us[k].txs
        /\ mod_id(us[m]) = subj_mod(us[k], TxScopeFinalize)
        /\ ~ us[m].cached_pcs[1]

\* C27: no SubjectWithContext is formed for a subject of a released
\* transaction: when the TxScopeFinalize it binds has is-commit false, the
\* construction raises and gives no context.
C27_ReleasedHasNoContext ==
    [][(ctx' # ctx /\ bound_release(units, ctx'.subj))
          => /\ ctx'.raised = "ValueError"
             /\ ctx'.strand = None]_vars

\* the context of a subject was asked for whose finalize is a release, and
\* only modifiers that affect it were found
C27_Witness ==
    /\ ctx.subj # None
    /\ ctx.subj \in DOMAIN units
    /\ bound_release(units, ctx.subj)
    /\ ctx.raised = "ValueError"
    /\ ctx.mods[txmods_index(TxScopeFinalize)] # None

\* the subjects of the Content that are in storage
live_subjects ==
    {k \in 1..Len(index.timeline) :
        /\ index.timeline[k].typeid = StrandCreate
        /\ fin_of(index.timeline, k) # None
        /\ k \notin index.dead}

\* C28: iterating a Content yields every subject that is in storage once, in
\* non-decreasing content order (the store id of its finalize first, then its
\* own), also with several transactions in one scope and with scopes that
\* overlap; iter_stream_order yields the same subjects by store id.
C28_IterContentOrder ==
    index.ret.op = "content_iter"
        => /\ index.ret.raised = "no"
           /\ Range(index.ret.out) = live_subjects
           /\ Len(index.ret.out) = Cardinality(live_subjects)
           /\ \A i, j \in 1..Len(index.ret.out) :
                i < j =>
                    \/ fin_of(index.timeline, index.ret.out[i])
                         < fin_of(index.timeline, index.ret.out[j])
                    \/ /\ fin_of(index.timeline, index.ret.out[i])
                            = fin_of(index.timeline, index.ret.out[j])
                       /\ index.ret.out[i] < index.ret.out[j]
           /\ index.ret.stream = SortedSeq(live_subjects)

\* iterations that end without an exception are in content order, and
\* their iter_stream_order in store order
C28_OrderWhenYielded ==
    (index.ret.op = "content_iter" /\ index.ret.raised = "no")
        => /\ Range(index.ret.out) = live_subjects
           /\ Len(index.ret.out) = Cardinality(live_subjects)
           /\ \A i, j \in 1..Len(index.ret.out) :
                i < j => content_order(index.timeline, index.ret.out[i])
                            < content_order(index.timeline, index.ret.out[j])
           /\ index.ret.stream = SortedSeq(live_subjects)

\* a Content of one committed transaction, StrandSelect, StrandCreate,
\* TxScopeFinalize, is iterated
C28_SelectCreateFinalize ==
    /\ index.ret.op = "content_iter"
    /\ Len(index.timeline) = 3
    /\ index.timeline[1].typeid = StrandSelect
    /\ index.timeline[2].typeid = StrandCreate
    /\ index.timeline[3].typeid = TxScopeFinalize
    /\ index.timeline[1].txs = index.timeline[2].txs
    /\ index.timeline[2].txs = index.timeline[3].txs
    /\ index.dead = {}

\* the ids mapped by phase A of the last sync(): those above last_sync_id at
\* its first read and up to last_sync_id when phase A was left
MappedInPhaseA ==
    IF sync_ret.reads = <<>> THEN {}
    ELSE IF sync_ret.reads[1].phase # "A" THEN {}
    ELSE {k \in DOMAIN units :
            /\ k > sync_ret.reads[1].mapped
            /\ k <= IF Len(sync_ret.reads) >= 2 THEN sync_ret.reads[2].mapped
                    ELSE last_sync_id}

\* C35: phase A of sync maps only units that are neither transaction units
\* nor TxScopeMarkers: it ends, without mapping it, at the first TxScopeMarker
\* or transaction unit it meets.
C35_PhaseAStopsAtMarker ==
    \A k \in MappedInPhaseA :
        ~is_TXUnit(units[k].typeid) /\ units[k].typeid # TxScopeMarker

\* phase A never maps a transaction unit
C35_PhaseAStopsAtTXUnit ==
    \A k \in MappedInPhaseA : ~is_TXUnit(units[k].typeid)

\* the ids that the sync() of this step maps
NewlyMapped == (DOMAIN units') \ (DOMAIN units)

\* the TxScopeMarkers that the sync() of this step maps before the id k
NewMarkersBefore(k) ==
    {j \in NewlyMapped : j < k /\ units'[j].typeid = TxScopeMarker}

\* cur_txscope when the sync() of this step reaches the marker k: the next-txs
\* of the marker mapped before it in this call; else the scope the call began
\* with; else, past phase B, the prev-txs that phase B adopted from k
scope_before(k) ==
    IF NewMarkersBefore(k) # {} THEN log[Max(NewMarkersBefore(k))].unit[3]
    ELSE IF cur_txscope # None THEN cur_txscope
    ELSE IF k \in MappedInPhaseA' THEN None
    ELSE log[k].unit[2]

\* the next id of every modifier type of the txs counts the modifiers of us
next_ids_count(us, nexts) ==
    \A t \in DOMAIN nexts : \A i \in 1..Len(txmods) :
        nexts[t][i] =
            Cardinality({k \in DOMAIN us :
                            us[k].txs = t /\ us[k].typeid \in {txmods[i], TxScopeFinalize}})

\* C36: a sync that reaches a TxScopeMarker whose prev-txs differs from
\* cur_txscope fails and leaves the mapper as it was before the marker was
\* reached: the marker is not in units, cur_txscope and mod_next_ids_per_txs
\* are as the units mapped before it left them, and the units mapped earlier
\* are unchanged.
C36_FailedMarkerLeavesNoTrace ==
    [][sync_ret'.raised = "AssertionError" =>
        /\ \A k \in NewlyMapped :
                units'[k].typeid = TxScopeMarker => log[k].unit[2] = scope_before(k)
        /\ \A k \in NewlyMapped :
                (units'[k].typeid = TxScopeMarker /\ k = last_sync_id')
                    => cur_txscope' = log[k].unit[3]
        /\ next_ids_count(units', mod_next_ids_per_txs')
        /\ \A k \in DOMAIN units : k \in DOMAIN units' /\ units'[k] = units[k]]_vars

\* the part of C36 about the units mapped earlier and the counters
C36_EarlierUnitsKept ==
    [][sync_ret'.raised = "AssertionError" =>
        /\ next_ids_count(units', mod_next_ids_per_txs')
        /\ cur_txscope' # None => cur_txscope' = scope_before(last_sync_id')
        /\ \A k \in DOMAIN units : k \in DOMAIN units' /\ units'[k] = units[k]]_vars

\* a sync has failed at a marker that follows mapped transaction units
C36_MarkerAfterUnits ==
    /\ sync_ret.raised = "AssertionError"
    /\ cur_txscope # None
    /\ units[last_sync_id].typeid = TxScopeMarker
    /\ log[last_sync_id].unit[2] # cur_txscope

MappedSubjects == {k \in DOMAIN units : is_TXSubject(units[k].typeid)}

\* the TxScopeFinalize units of the txs of k mapped between j and k
FinalizesBetween(j, k) ==
    {f \in DOMAIN units :
        /\ units[f].typeid = TxScopeFinalize
        /\ units[f].txs = units[k].txs
        /\ (j < f /\ f < k)}

\* C37: transactions that use one txs id again are kept apart by the
\* TxScopeFinalize between them: a subject mapped before a finalize of its txs
\* has no modifier id equal to the mod_id of a modifier of that type mapped
\* after the finalize in that txs, and a subject mapped after it has none
\* equal to the mod_id of a modifier mapped before it.
C37_FinalizeIsolates ==
    \A s \in MappedSubjects : \A m \in MappedModifiers :
        (/\ units[s].txs = units[m].txs
         /\ (FinalizesBetween(s, m) # {} \/ FinalizesBetween(m, s) # {}))
            => units[s].mod_assoc[txmods_index(units[m].typeid)]
                 # units[m].mod_assoc[1]

\* a subject that follows a StrandSelect, then a finalize of the txs, then
\* another StrandSelect in the same txs, all mapped
C37_Witness ==
    \E s \in MappedSubjects : \E m \in MappedModifiers :
        /\ units[s].txs = units[m].txs
        /\ units[m].typeid = StrandSelect
        /\ FinalizesBetween(s, m) # {}
        /\ units[s].mod_assoc[txmods_index(StrandSelect)] + 1 = units[m].mod_assoc[1]

\* a subject mapped after a finalize that follows a StrandSelect of its txs
C37_WitnessAfter ==
    \E s \in MappedSubjects : \E m \in MappedModifiers :
        /\ units[s].txs = units[m].txs
        /\ units[m].typeid = StrandSelect
        /\ FinalizesBetween(m, s) # {}

\* the last sync() left phase B: the reads of the main loop that follow a read
\* of phase B
ReadsAfterPhaseB ==
    {i \in 2..Len(sync_ret.reads) :
        sync_ret.reads[i].phase = "C" /\ sync_ret.reads[i - 1].phase = "B"}

\* the transaction units in storage between the units mapped when phase B
\* was left and the marker phase B stopped at
BeforeFirstMarker(i) ==
    {k \in (sync_ret.reads[i].mapped + 1)..(sync_gen.last_scan_ahead_id - 1) :
        storage_contains(log, k) /\ is_TXUnit(log[k].unit[1])}

C31_MakeTxsUnused ==
    composer.ret.op = "make_txs" =>
        /\ composer.ret.raised = "no" =>
                /\ composer.ret.txs \in TxScopeIDs
                /\ composer.ret.txs \notin composer.ret.active
                /\ composer.ret.txs \notin composer.ret.made
                /\ 2 * Cardinality(composer.ret.active \cup {composer.ret.txs})
                        <= 2^TxScopeBits
        /\ composer.ret.raised # "no" =>
                composer.ret.raised = "RuntimeError" /\ composer.ret.txs = None
        /\ composer.ret.raised # "no" <=>
                2 * (Cardinality(composer.ret.active) + Cardinality(composer.ret.made))
                    >= 2^TxScopeBits

\* make_txs returned an id with scopes active and an id issued before, one
\* short of the limit
C31_Witness ==
    /\ composer.ret.op = "make_txs"
    /\ composer.ret.raised = "no"
    /\ composer.ret.active # {}
    /\ composer.ret.made # {}
    /\ 2 * (Cardinality(composer.ret.active) + Cardinality(composer.ret.made) + 1)
            = 2^TxScopeBits

\* make_txs failed at the limit
C31_WitnessFull ==
    /\ composer.ret.op = "make_txs"
    /\ composer.ret.raised = "RuntimeError"
    /\ composer.ret.made # {}

\* C32: a TransactionComposer for txs writes TxScopeMarker(prev 0, next txs)
\* as the first record of its transient storage, and every transaction unit
\* given to it is mapped by the transient mapper with that txs.
C32_ComposerUnitsInTxs ==
    composer.ret.op = "init" =>
        /\ composer.storage[1].unit = <<TxScopeMarker, 0, composer.txs>>
        /\ \A k \in 2..Len(composer.storage) :
                is_TXUnit(composer.storage[k].unit[1])
                    => /\ k \in DOMAIN composer.units
                       /\ composer.units[k].txs = composer.txs

\* a composer is made for a txs other than 0 with a transaction unit
C32_NonZeroTxs ==
    /\ composer.ret.op = "init"
    /\ composer.txs # 0
    /\ Len(composer.storage) >= 2

\* C33: decoding a Bool accepts only the bytes 0 (false) and 1 (true) and
\* fails on any other byte: a TxScopeFinalize read whole has an is-commit
\* byte of 0 or 1, and the scan over a deleted record passes only bytes 1 and
\* ends at a byte 0.
C33_BoolOnlyZeroOne ==
    [][(io_ret'.op = "read_next" /\ io_ret'.ok /\ pos < Len(stream)) =>
        /\ (stream[pos + 1] = TxScopeFinalize /\ Len(io_ret'.v) = 2)
                => /\ stream[pos + 2] \in {0, 1}
                   /\ io_ret'.v[2] = (stream[pos + 2] = 1)
        /\ stream[pos + 1] = 1
                => /\ \A i \in (pos + 2)..(pos' - 1) : stream[i] = 1
                   /\ stream[pos'] = 0]_vars

\* the part of C33 that holds: the scan over a deleted record ends at the
\* first byte 0, and a byte 0 decodes as false
C33_ZeroTerminates ==
    [][(io_ret'.op = "read_next" /\ io_ret'.ok /\ pos < Len(stream)) =>
        /\ (stream[pos + 1] = TxScopeFinalize /\ Len(io_ret'.v) = 2)
                => io_ret'.v[2] = (stream[pos + 2] # 0)
        /\ stream[pos + 1] = 1
                => /\ \A i \in (pos + 2)..(pos' - 1) : stream[i] # 0
                   /\ stream[pos'] = 0]_vars

\* a TxScopeFinalize whose is-commit byte is 2 has been read whole
C33_FinalizeByteTwo ==
    /\ io_ret.op = "read_next"
    /\ io_ret.ok
    /\ Len(io_ret.v) = 2
    /\ pos = 2
    /\ stream[1] = TxScopeFinalize
    /\ stream[2] = 2

\* C34: after any insert_or_replace and delete calls, with any drop depth
\* and any replacement side, k in tree is k in the reference set, and
\* iterating the tree gives the keys of the reference set in ascending order.
C34_TreeIsReferenceSet ==
    /\ tree.ret.op = "contains" => tree.ret.found = (tree.ret.k \in tree.ref)
    /\ tree.ret.op = "iter" => tree.ret.out = SortedSeq(tree.ref)

\* an insert that hangs the new node under a node of the tree keeps the
\* iteration equal to the sorted reference set
C34_LeafInserts ==
    [][(tree'.ret.op = "insert_or_replace" /\ tree.size' = tree.size + 1
            /\ Len(tree.nodes') = Len(tree.nodes) + 1)
        => (islice(tree.nodes) = SortedSeq(tree.ref)
                => \/ islice(tree.nodes') = SortedSeq(tree.ref')
                   \/ ~(\E n \in 1..Len(tree.nodes) :
                            Len(tree.nodes) + 1 \in Range(tree.nodes'[n].children)))]_vars

\* a tree holding one key was given a second key at drop depth 0 and iterated
C34_SecondKeyLost ==
    /\ tree.ret.op = "iter"
    /\ tree.ops = 2
    /\ tree.size = 2
    /\ Cardinality(tree.ref) = 2
    /\ Len(tree.ret.out) = 1

\* the keys of the unique map whose store id is in storage
live_keys(p) == {k \in keys(p) : Uniques_test_valid(p, k)}

\* C38: no call on a unique map removes a key whose store id is in storage;
\* a key recorded as expired while an iterator was open and given a live
\* store id since stays in the map, with that id, when the flush comes.
C38_FlushKeepsLive ==
    [][\A k \in live_keys(uniques) :
            k \in keys(uniques') /\ uniques'.vals[k] = uniques.vals[k]]_vars

\* what the flush removes: the keys recorded as expired, and only when no
\* iterator is open
C38_FlushRemovesExpired ==
    [][keys(uniques) \ keys(uniques') # {}
        => /\ uniques'.iters_open = 0
           /\ keys(uniques) \ keys(uniques')
                \subseteq uniques.expired \cup uniques'.ret.skipped]_vars

\* an iterator is open, and a key recorded as expired holds a live store id
C38_ExpiredKeyLive ==
    /\ uniques.iters_open > 0
    /\ uniques.expired \cap live_keys(uniques) # {}

\* the iterators are closed and the key that was given the last store id is
\* not in the map
C38_LiveKeyGone ==
    /\ uniques.ret.op \in {"close", "next"}
    /\ uniques.iters_open = 0
    /\ uniques.ctr \notin uniques.dead
    /\ uniques.ctr > 0
    /\ \A k \in keys(uniques) : uniques.vals[k] # uniques.ctr

\* C39: over any calls, the ids a feed's iter_new_units yields are mapped ids
\* that are in storage, each above the one yielded before and above the
\* feed's last_sync_id; the feed's last_sync_id never decreases and never
\* exceeds units.last_sync_id.
C39_FeedDeliversOnceInOrder ==
    [][\A f \in 1..Len(all_feeds) :
        /\ feed_ret' # feed_ret =>
            /\ \A i \in 1..Len(feed_ret'.yields[f]) :
                  /\ feed_ret'.yields[f][i] > all_feeds[f].last_sync_id
                  /\ i > 1 => feed_ret'.yields[f][i] > feed_ret'.yields[f][i - 1]
                  /\ feed_ret'.yields[f][i] \notin delivered[f]
                  /\ feed_ret'.yields[f][i] <= last_sync_id'
                  /\ storage_contains(log, feed_ret'.yields[f][i])
            /\ delivered'[f] = delivered[f] \cup Range(feed_ret'.yields[f])
        /\ feed_ret' = feed_ret => delivered'[f] = delivered[f]
        /\ all_feeds'[f].last_sync_id >= all_feeds[f].last_sync_id
        /\ all_feeds'[f].last_sync_id <= last_sync_id'
      ]_vars

\* the ids a feed was given are at or below its last_sync_id
C39_DeliveredBelowCursor ==
    \A f \in 1..Len(all_feeds) :
        \A k \in delivered[f] : k <= all_feeds[f].last_sync_id

\* one call gave a feed two ids, one from the slice before sync() and one
\* that its sync() mapped
C39_Witness ==
    /\ feed_ret.op = "iter_new_units"
    /\ feed_ret.mapped > 0
    /\ Len(feed_ret.yields[feed_ret.arg]) > feed_ret.mapped

\* a feed that had been given an id was given a later one by a later call
C39_WitnessLater ==
    /\ feed_ret.op = "iter_new_units"
    /\ Len(feed_ret.yields[feed_ret.arg]) > 0
    /\ Cardinality(delivered[feed_ret.arg]) > Len(feed_ret.yields[feed_ret.arg])

\* a consuming recv_extend was given an id within a sync()
C39_WitnessNotified ==
    /\ feed_ret.op = "sync"
    /\ \E f \in 1..Len(all_feeds) : Len(feed_ret.yields[f]) > 0

====
